---- MODULE Spec2Model ----
(***************************************************************************)
(* Verification model of the SA Investment Analyzer: the transaction       *)
(* ledger calculator, the portfolio manager's ledger writes, the recurring *)
(* transaction engine, the price store and the scoped database session.    *)
(*                                                                         *)
(* Quantities are fixed-point integers counted in units of 0.0005 shares   *)
(* (so the 0.001 dust threshold is 2 units); money is counted in whole     *)
(* rand.  An optional column is <<>> when NULL/None and <<v>> when set.    *)
(***************************************************************************)
EXTENDS Integers, Sequences, FiniteSets, TLC

VARIABLES
  pc,              \* the operation in progress and its position
  txn,             \* the ledger row a calculator loop read last
  replayed,        \* number of ledger rows read so far
  holdings,        \* get_current_holdings: the running holdings dict
  result,          \* the value the last operation returned
  holdings_at,     \* get_holdings_at_date: running dict, per target date
  stopped,         \* get_holdings_at_date: target dates whose loop hit break
  result_at,       \* get_holdings_at_date: returned dict, per target date
  reducing_dates,  \* dates of the SELL/TRANSFER_OUT/SPLIT rows read so far
  total_invested,  \* calculate_cost_basis: running sum of investments
  total_proceeds,  \* calculate_cost_basis: running sum of divestments
  product_lots,    \* calculate_realized_gains: open lots per product
  realized_pl,     \* calculate_realized_gains: running realized P&L
  portfolios,      \* table portfolios, in insertion order
  portfolio_holdings,  \* legacy table portfolio_holdings
  cash_pools,      \* table cash_pools, in insertion order
  transactions,    \* table transactions, in insertion order
  rules,           \* table recurring_transaction_rules, by id
  prices,          \* table prices, in insertion order
  session,         \* the session a get_db_session() block works in
  call,            \* the arguments of the last call
  products,        \* table investment_products, in insertion order
  requests,        \* RateLimiter.requests: the timestamps it remembers
  clock,           \* the wall clock, in tenths of a second
  admitted         \* the times at which wait_if_needed() returned

\* Locals of the calculator methods.
calcState ==
  <<txn, replayed, holdings, holdings_at, stopped, result_at, reducing_dates,
    total_invested, total_proceeds, product_lots, realized_pl>>

\* The database and the session.
dbState ==
  <<portfolios, portfolio_holdings, cash_pools, transactions, rules, prices,
    session, call>>

\* The product table, the rate limiter and the clock.
fetchState == <<products, requests, clock, admitted>>

vars == <<pc, dbState, fetchState, calcState, result>>

\* The variables each calculator method leaves alone.
OutsideHoldings ==
  <<holdings_at, stopped, result_at, reducing_dates, total_invested,
    total_proceeds, product_lots, realized_pl, dbState, fetchState>>

OutsideAtDate ==
  <<holdings, result, total_invested, total_proceeds, product_lots, realized_pl,
    dbState, fetchState>>

OutsideCostBasis ==
  <<holdings, holdings_at, stopped, result_at, reducing_dates, product_lots,
    realized_pl, dbState, fetchState>>

OutsideRealized ==
  <<holdings, holdings_at, stopped, result_at, reducing_dates, total_invested,
    total_proceeds, dbState, fetchState>>

(***************************************************************************)
(* Optional values and Python truthiness                                   *)
(***************************************************************************)
None == <<>>

Some(v) == <<v>>

\* Python truth value of an optional number: None and 0 are falsy.
Truthy(x) == x # None /\ x[1] # 0

Abs(n) == IF n < 0 THEN -n ELSE n

\* abs(x) if x else 0
AbsOrZero(x) == IF Truthy(x) THEN Abs(x[1]) ELSE 0

(***************************************************************************)
(* database/models.py                                                      *)
(***************************************************************************)
TransactionType ==
  {"BUY", "SELL", "DIVIDEND", "INTEREST", "FEE", "TAX", "SPLIT", "BONUS",
   "RIGHTS", "COUPON", "DEPOSIT", "WITHDRAWAL", "TRANSFER_IN", "TRANSFER_OUT",
   "OTHER"}

\* Bound: number of ledger rows a calculator loop replays.
MaxTxns == 3

\* Product ids of the catalogue (autoincrement ids start at 1).
Products == {1, 2}

\* A Transaction row, restricted to the columns the calculator reads.
Txn(type, product, date, qty, price, net, ratio) ==
  [transaction_type |-> type, product_id |-> product, transaction_date |-> date,
   quantity |-> qty, price |-> price, net_amount |-> net, split_ratio |-> ratio]

\* The row the loops have not read yet.
NoTxn == Txn("OTHER", None, 0, None, None, None, None)

\* Target dates asked for, and the dates ledger rows carry (days).
Dates == {1, 2, 3}

EmptyHoldings == [p \in Products |-> 0]

\* No session has been opened: new holds the objects pending in the session,
\* database the committed ones, before the database as the session found it,
\* written what the managed block added.
NoSession ==
  [new |-> {}, database |-> {}, before |-> {}, written |-> {},
   block |-> "none", error |-> None, raised |-> None,
   commit_calls |-> 0, rollback_calls |-> 0, close_calls |-> 0, opened |-> 0]

\* The locals of the calculator methods and the last result before any
\* operation has run.
IdleCalculator ==
  /\ txn = NoTxn
  /\ replayed = 0
  /\ holdings = EmptyHoldings
  /\ result = <<>>
  /\ holdings_at = [d \in Dates |-> EmptyHoldings]
  /\ stopped = {}
  /\ result_at = <<>>
  /\ reducing_dates = {}
  /\ total_invested = 0
  /\ total_proceeds = 0
  /\ product_lots = [p \in Products |-> <<>>]
  /\ realized_pl = 0

\* No product is known, the rate limiter remembers no request and the clock
\* stands at 0.
IdleFetcher ==
  /\ products = <<>>
  /\ requests = <<>>
  /\ clock = 0
  /\ admitted = <<>>

\* Every variable but pc before any operation has run: an empty database.
Idle ==
  /\ IdleCalculator
  /\ portfolios = <<>>
  /\ portfolio_holdings = <<>>
  /\ cash_pools = <<>>
  /\ transactions = <<>>
  /\ rules = <<>>
  /\ prices = <<>>
  /\ session = NoSession
  /\ call = <<>>
  /\ IdleFetcher

(***************************************************************************)
(* analytics/ledger_calculator.py: get_current_holdings                    *)
(***************************************************************************)
\* 0.001 units, the closed-position threshold, in units of 0.0005.
Dust == 2

\* Mutant: RIGHTS left out of the increasing types.
HoldingsIncreaseTypes_NoRights == {"BUY", "BONUS", "TRANSFER_IN", "DEPOSIT"}

HoldingsIncreaseTypes == {"BUY", "BONUS", "RIGHTS", "TRANSFER_IN", "DEPOSIT"}

HoldingsDecreaseTypes == {"SELL", "TRANSFER_OUT", "WITHDRAWAL"}

\* Body of the for-loop of get_current_holdings, applied to one row.
HoldingsBody(h, t) ==
  IF ~Truthy(t.product_id) THEN h
  ELSE LET p == t.product_id[1] IN
    IF t.transaction_type \in HoldingsIncreaseTypes
      THEN [h EXCEPT ![p] = @ + AbsOrZero(t.quantity)]
    ELSE IF t.transaction_type \in HoldingsDecreaseTypes
      THEN [h EXCEPT ![p] = @ - AbsOrZero(t.quantity)]
    ELSE IF t.transaction_type = "SPLIT"
      THEN IF Truthy(t.split_ratio)
             THEN [h EXCEPT ![p] = @ * t.split_ratio[1]]
             ELSE h
    ELSE h

\* Mutant: the threshold itself counts as an open position.
OpenPositions_Inclusive(h) ==
  [p \in {q \in Products : h[q] >= Dust} |-> h[p]]

\* The returned dict: {pid: qty for pid, qty in holdings.items() if qty > 0.001}
OpenPositions(h) ==
  [p \in {q \in Products : h[q] > Dust} |-> h[p]]

RECURSIVE ReplayHoldings(_, _)
ReplayHoldings(h, txns) ==
  IF txns = <<>> THEN h
  ELSE ReplayHoldings(HoldingsBody(h, Head(txns)), Tail(txns))

\* get_current_holdings() of a calculator whose loaded list is txns.
get_current_holdings(txns) == OpenPositions(ReplayHoldings(EmptyHoldings, txns))

\* Ledger rows fed to the holdings loops.  Quantities: NULL, 0, 0.0005, 0.002,
\* 100 and -40 shares (a SELL is stored negated); split ratios: NULL, 0, 2.
HoldingQuantities == {None, Some(0), Some(1), Some(4), Some(200000), Some(-80000)}

SplitRatios == {None, Some(0), Some(2)}

OptProducts == {None} \cup {Some(p) : p \in Products}

\* Rows of the types the loop reads a quantity of take every quantity; rows of
\* the remaining types, whose quantity no branch reads, take one.
HoldingRows ==
  {Txn(ty, p, 0, q, None, None, None) :
     ty \in HoldingsIncreaseTypes \cup HoldingsDecreaseTypes,
     p \in OptProducts, q \in HoldingQuantities}
  \cup
  {Txn(ty, p, 0, Some(4), None, None, None) :
     ty \in TransactionType \ (HoldingsIncreaseTypes \cup HoldingsDecreaseTypes \cup {"SPLIT"}),
     p \in OptProducts}
  \cup
  {Txn("SPLIT", p, 0, None, None, None, r) : p \in OptProducts, r \in SplitRatios}

(***************************************************************************)
(* analytics/ledger_calculator.py: get_holdings_at_date                    *)
(***************************************************************************)
\* Mutant: WITHDRAWAL reduces the point-in-time position as well.
AtDateDecreaseTypes_Withdrawal == {"SELL", "TRANSFER_OUT", "WITHDRAWAL"}

AtDateIncreaseTypes == {"BUY", "BONUS", "TRANSFER_IN"}

AtDateDecreaseTypes == {"SELL", "TRANSFER_OUT"}

\* Body of the for-loop of get_holdings_at_date below the date test.
AtDateBody(h, t) ==
  IF ~Truthy(t.product_id) THEN h
  ELSE LET p == t.product_id[1] IN
    IF t.transaction_type \in AtDateIncreaseTypes
      THEN [h EXCEPT ![p] = @ + AbsOrZero(t.quantity)]
    ELSE IF t.transaction_type \in AtDateDecreaseTypes
      THEN [h EXCEPT ![p] = @ - AbsOrZero(t.quantity)]
    ELSE IF t.transaction_type = "SPLIT"
      THEN IF Truthy(t.split_ratio)
             THEN [h EXCEPT ![p] = @ * t.split_ratio[1]]
             ELSE h
    ELSE h

\* The loop of get_holdings_at_date over a loaded list: it breaks at the first
\* row dated after the target date (lines 92-95).
RECURSIVE ReplayAtDate(_, _, _)
ReplayAtDate(h, txns, target_date) ==
  IF txns = <<>> \/ Head(txns).transaction_date > target_date THEN h
  ELSE ReplayAtDate(AtDateBody(h, Head(txns)), Tail(txns), target_date)

\* get_holdings_at_date(target_date) of a calculator whose loaded list is txns.
get_holdings_at_date(txns, target_date) ==
  OpenPositions(ReplayAtDate(EmptyHoldings, txns, target_date))

\* Rows fed to get_holdings_at_date: 0.0015 and -0.0025 units, or no quantity.
AtDateQuantities == {None, Some(3), Some(-5)}

\* As for HoldingRows, rows of the types whose quantity the loop reads take
\* every quantity and the others take one.
AtDateRows ==
  {Txn(ty, p, d, q, None, None, None) :
     ty \in AtDateIncreaseTypes \cup AtDateDecreaseTypes, p \in OptProducts,
     d \in Dates, q \in AtDateQuantities}
  \cup
  {Txn(ty, p, d, Some(3), None, None, None) :
     ty \in TransactionType \ (AtDateIncreaseTypes \cup AtDateDecreaseTypes \cup {"SPLIT"}),
     p \in {Some(q) : q \in Products}, d \in Dates}
  \cup
  {Txn("SPLIT", p, d, None, None, None, r) :
     p \in OptProducts, d \in Dates, r \in SplitRatios}

InitAtDate == pc = "get_holdings_at_date" /\ Idle

\* One row of self.transactions (loaded ordered by transaction_date), read by
\* the loop of get_holdings_at_date(d) for every target date d (lines 92-116).
GHAD_Iterate(t) ==
  /\ pc = "get_holdings_at_date"
  /\ replayed < MaxTxns
  /\ t.transaction_date >= txn.transaction_date
  /\ txn' = t
  /\ replayed' = replayed + 1
  /\ stopped' = stopped \cup {d \in Dates : t.transaction_date > d}
  /\ holdings_at' =
       [d \in Dates |->
          IF d \in stopped \/ t.transaction_date > d
            THEN holdings_at[d]
            ELSE AtDateBody(holdings_at[d], t)]
  /\ reducing_dates' =
       IF t.transaction_type \in {"SELL", "TRANSFER_OUT", "SPLIT"}
         THEN reducing_dates \cup {t.transaction_date}
         ELSE reducing_dates
  /\ UNCHANGED <<pc, result_at>> /\ UNCHANGED OutsideAtDate

\* The return statement (line 118), for every target date.
GHAD_Return ==
  /\ pc = "get_holdings_at_date"
  /\ pc' = "returned"
  /\ result_at' = [d \in Dates |-> OpenPositions(holdings_at[d])]
  /\ UNCHANGED <<txn, replayed, holdings_at, stopped, reducing_dates>>
  /\ UNCHANGED OutsideAtDate

NextAtDate ==
  \/ \E t \in AtDateRows : GHAD_Iterate(t)
  \/ GHAD_Return

SpecAtDate == InitAtDate /\ [][NextAtDate]_vars

InitHoldings == pc = "get_current_holdings" /\ Idle

\* One iteration of `for txn in self.transactions` (lines 49-74).
GCH_Iterate(t) ==
  /\ pc = "get_current_holdings"
  /\ replayed < MaxTxns
  /\ txn' = t
  /\ replayed' = replayed + 1
  /\ holdings' = HoldingsBody(holdings, t)
  /\ UNCHANGED <<pc, result>> /\ UNCHANGED OutsideHoldings

\* The return statement (line 77).
GCH_Return ==
  /\ pc = "get_current_holdings"
  /\ pc' = "returned"
  /\ result' = OpenPositions(holdings)
  /\ UNCHANGED <<txn, replayed, holdings>> /\ UNCHANGED OutsideHoldings

NextHoldings ==
  \/ \E t \in HoldingRows : GCH_Iterate(t)
  \/ GCH_Return

SpecHoldings == InitHoldings /\ [][NextHoldings]_vars

(***************************************************************************)
(* analytics/ledger_calculator.py: calculate_cost_basis                    *)
(***************************************************************************)
\* Mutant: proceeds summed with their stored sign.
CostBasisBody_Signed(acc, t) ==
  IF t.transaction_type \in {"BUY", "DEPOSIT"}
    THEN <<acc[1] + AbsOrZero(t.net_amount), acc[2]>>
  ELSE IF t.transaction_type \in {"SELL", "WITHDRAWAL"}
    THEN <<acc[1], acc[2] + (IF Truthy(t.net_amount) THEN t.net_amount[1] ELSE 0)>>
  ELSE acc

\* Body of the for-loop of calculate_cost_basis on
\* acc = <<total_invested, total_proceeds>>.
CostBasisBody(acc, t) ==
  IF t.transaction_type \in {"BUY", "DEPOSIT"}
    THEN <<acc[1] + AbsOrZero(t.net_amount), acc[2]>>
  ELSE IF t.transaction_type \in {"SELL", "WITHDRAWAL"}
    THEN <<acc[1], acc[2] + AbsOrZero(t.net_amount)>>
  ELSE acc

RECURSIVE ReplayCostBasis(_, _)
ReplayCostBasis(acc, txns) ==
  IF txns = <<>> THEN acc
  ELSE ReplayCostBasis(CostBasisBody(acc, Head(txns)), Tail(txns))

\* calculate_cost_basis() of a calculator whose loaded list is txns.
calculate_cost_basis(txns) ==
  LET acc == ReplayCostBasis(<<0, 0>>, txns) IN acc[1] - acc[2]

\* Rows fed to calculate_cost_basis: net amounts NULL, 0, 10,000, 2,500 and
\* -4,000 rand (a SELL is stored negated), of every transaction type.
CostBasisRows ==
  {Txn(ty, Some(1), 0, None, None, n, None) :
     ty \in TransactionType,
     n \in {None, Some(0), Some(10000), Some(2500), Some(-4000)}}

InitCostBasis == pc = "calculate_cost_basis" /\ Idle

\* One iteration of the loop (lines 131-144).
CCB_Iterate(t) ==
  /\ pc = "calculate_cost_basis"
  /\ replayed < MaxTxns
  /\ txn' = t
  /\ replayed' = replayed + 1
  /\ LET acc == CostBasisBody(<<total_invested, total_proceeds>>, t) IN
       /\ total_invested' = acc[1]
       /\ total_proceeds' = acc[2]
  /\ UNCHANGED <<pc, result>> /\ UNCHANGED OutsideCostBasis

\* The return statement (line 146).
CCB_Return ==
  /\ pc = "calculate_cost_basis"
  /\ pc' = "returned"
  /\ result' = total_invested - total_proceeds
  /\ UNCHANGED <<txn, replayed, total_invested, total_proceeds>>
  /\ UNCHANGED OutsideCostBasis

NextCostBasis ==
  \/ \E t \in CostBasisRows : CCB_Iterate(t)
  \/ CCB_Return

SpecCostBasis == InitCostBasis /\ [][NextCostBasis]_vars

(***************************************************************************)
(* analytics/ledger_calculator.py: calculate_realized_gains                *)
(* Lot quantities are counted in whole shares here.                        *)
(***************************************************************************)
\* `x or 0`
OrZero(x) == IF Truthy(x) THEN x[1] ELSE 0

\* Mutant: the sell is matched against the newest lot first.
RECURSIVE ConsumeLots_Lifo(_, _, _, _)
ConsumeLots_Lifo(lots, sell_quantity, sell_price, pl) ==
  IF ~(sell_quantity > 0 /\ lots # <<>>) THEN <<lots, pl>>
  ELSE LET n == Len(lots)
           lot == lots[n] IN
    IF lot.quantity <= sell_quantity
      THEN ConsumeLots_Lifo(SubSeq(lots, 1, n - 1), sell_quantity - lot.quantity,
                            sell_price, pl + lot.quantity * (sell_price - lot.price))
      ELSE ConsumeLots_Lifo([lots EXCEPT ![n].quantity = @ - sell_quantity], 0,
                            sell_price, pl + sell_quantity * (sell_price - lot.price))

\* The while-loop of a SELL (lines 279-292): <<lots left, realized_pl>>.
RECURSIVE ConsumeLots(_, _, _, _)
ConsumeLots(lots, sell_quantity, sell_price, pl) ==
  IF ~(sell_quantity > 0 /\ lots # <<>>) THEN <<lots, pl>>
  ELSE LET lot == Head(lots) IN
    IF lot.quantity <= sell_quantity
      THEN ConsumeLots(Tail(lots), sell_quantity - lot.quantity, sell_price,
                       pl + lot.quantity * (sell_price - lot.price))
      ELSE ConsumeLots([lots EXCEPT ![1].quantity = @ - sell_quantity], 0,
                       sell_price, pl + sell_quantity * (sell_price - lot.price))

\* Body of the for-loop of calculate_realized_gains on
\* acc = <<product_lots, realized_pl>>.
RealizedBody(acc, t) ==
  IF ~Truthy(t.product_id) \/ ~Truthy(t.quantity) THEN acc
  ELSE LET p == t.product_id[1] IN
    IF t.transaction_type = "BUY"
      THEN <<[acc[1] EXCEPT ![p] =
                Append(@, [quantity |-> Abs(t.quantity[1]), price |-> OrZero(t.price)])],
             acc[2]>>
    ELSE IF t.transaction_type = "SELL"
      THEN LET r == ConsumeLots(acc[1][p], Abs(t.quantity[1]), OrZero(t.price), acc[2])
           IN <<[acc[1] EXCEPT ![p] = r[1]], r[2]>>
    ELSE acc

RECURSIVE ReplayRealized(_, _)
ReplayRealized(acc, txns) ==
  IF txns = <<>> THEN acc
  ELSE ReplayRealized(RealizedBody(acc, Head(txns)), Tail(txns))

\* Rows fed to calculate_realized_gains: BUY rows of 10, 5 or -15 shares (or 0,
\* or none) at R100 or R120 (or no price), SELL rows of the same quantities at
\* R150 (or no price), a BUY and a SELL without product, and one row of every
\* other type, none of which the loop looks at.
RealizedRows ==
  {Txn("BUY", Some(p), 0, q, pr, None, None) :
     p \in Products, q \in {None, Some(0), Some(10), Some(5), Some(-15)},
     pr \in {None, Some(100), Some(120)}}
  \cup
  {Txn("SELL", Some(p), 0, q, pr, None, None) :
     p \in Products, q \in {None, Some(0), Some(10), Some(5), Some(-15)},
     pr \in {None, Some(150)}}
  \cup
  {Txn(ty, None, 0, Some(10), Some(100), None, None) : ty \in {"BUY", "SELL"}}
  \cup
  {Txn(ty, Some(1), 0, Some(10), Some(100), None, None) :
     ty \in TransactionType \ {"BUY", "SELL"}}

InitRealized == pc = "calculate_realized_gains" /\ Idle

\* One iteration of the loop (lines 260-292).
CRG_Iterate(t) ==
  /\ pc = "calculate_realized_gains"
  /\ replayed < MaxTxns
  /\ txn' = t
  /\ replayed' = replayed + 1
  /\ LET acc == RealizedBody(<<product_lots, realized_pl>>, t) IN
       /\ product_lots' = acc[1]
       /\ realized_pl' = acc[2]
  /\ UNCHANGED <<pc, result>> /\ UNCHANGED OutsideRealized

\* The return statement (line 294).
CRG_Return ==
  /\ pc = "calculate_realized_gains"
  /\ pc' = "returned"
  /\ result' = realized_pl
  /\ UNCHANGED <<txn, replayed, product_lots, realized_pl>>
  /\ UNCHANGED OutsideRealized

NextRealized ==
  \/ \E t \in RealizedRows : CRG_Iterate(t)
  \/ CRG_Return

SpecRealized == InitRealized /\ [][NextRealized]_vars

(***************************************************************************)
(* portfolio/portfolio_manager.py                                          *)
(***************************************************************************)
\* Bound: rows the transactions table may hold.
MaxLedger == 2

PortfolioNames == {"A", "B"}

\* The largest portfolio id the model hands out.
MaxPortfolios == 3

\* The integer primary key the database gives the next row of a table: one
\* more than the largest in use (SQLite rowid).
NextId(table) ==
  IF table = <<>> THEN 1
  ELSE 1 + (CHOOSE n \in {table[i].id : i \in DOMAIN table} :
              \A i \in DOMAIN table : table[i].id <= n)

\* session.query(Portfolio).filter_by(name=name), of which the callers take
\* .first().
PortfolioNamed(name) == SelectSeq(portfolios, LAMBDA p : p.name = name)

\* session.query(CashPool).filter_by(portfolio_id=portfolio_id)
PoolsOf(portfolio_id) == SelectSeq(cash_pools, LAMBDA p : p.portfolio = portfolio_id)

\* Mutant: every identifier resolves to a product.
ProductOf_Any(identifier) ==
  CASE identifier = "SOL" -> Some(2)
    [] OTHER -> Some(1)

\* InvestmentProduct lookup by identifier: "NPN" is product 1, "SOL" product 2,
\* any other identifier is not in the catalogue.
ProductOf(identifier) ==
  CASE identifier = "NPN" -> Some(1)
    [] identifier = "SOL" -> Some(2)
    [] OTHER -> None

\* str.upper() on the transaction_type arguments used.
Upper(s) == CASE s = "sell" -> "SELL" [] s = "buy" -> "BUY" [] OTHER -> s

\* The Transaction built by add_transaction (lines 111-133).
NewTransaction(c) ==
  LET ty == Upper(c.transaction_type)
      gross_amount == c.quantity * c.price
      net_amount == IF ty = "SELL" THEN gross_amount - c.fees - c.taxes
                    ELSE gross_amount + c.fees + c.taxes
  IN Txn(ty, ProductOf(c.product_identifier), c.transaction_date,
         Some(IF ty = "BUY" THEN c.quantity ELSE 0 - c.quantity),
         Some(c.price),
         Some(IF ty = "BUY" THEN net_amount ELSE 0 - net_amount),
         None)
     @@ [portfolio |-> Head(PortfolioNamed(c.portfolio_name)).id,
         cash_pool |->
           LET pools == PoolsOf(Head(PortfolioNamed(c.portfolio_name)).id)
           IN IF pools # <<>> THEN Some(Head(pools).id) ELSE None,
         gross_amount |-> gross_amount, fees |-> c.fees, taxes |-> c.taxes,
         is_auto_generated |-> FALSE, rule |-> 0]

\* Mutant: a sale credits the gross amount plus fees and taxes.
BalanceAfter_SellGross(balance, c) ==
  LET ty == Upper(c.transaction_type)
      gross_amount == c.quantity * c.price
  IN IF ty = "BUY" THEN balance - (gross_amount + c.fees + c.taxes)
     ELSE IF ty = "SELL" THEN balance + (gross_amount + c.fees + c.taxes)
     ELSE balance

\* The cash pool balance after add_transaction (lines 137-141).
BalanceAfter(balance, c) ==
  LET ty == Upper(c.transaction_type)
      gross_amount == c.quantity * c.price
  IN IF ty = "BUY" THEN balance - (gross_amount + c.fees + c.taxes)
     ELSE IF ty = "SELL" THEN balance + Abs(gross_amount - c.fees - c.taxes)
     ELSE balance

InitManager == pc = "PortfolioManager" /\ Idle

\* Mutant: the default cash pool opens with a balance of 100.
DefaultCashPool_Funded(portfolio_id, name) ==
  [id |-> NextId(cash_pools), portfolio |-> portfolio_id,
   name |-> <<name, " - Cash">>, currency |-> "ZAR",
   account_type |-> "CHECKING", current_balance |-> 100]

\* The CashPool create_portfolio adds (lines 53-59); the name is the
\* f-string f"{name} - Cash".
DefaultCashPool(portfolio_id, name) ==
  [id |-> NextId(cash_pools), portfolio |-> portfolio_id,
   name |-> <<name, " - Cash">>, currency |-> "ZAR",
   account_type |-> "CHECKING", current_balance |-> 0]

\* create_portfolio(name): lines 34-67.
create_portfolio(name) ==
  /\ pc \in {"PortfolioManager", "RecurringTransactionEngine", "Application"}
  /\ NextId(portfolios) <= MaxPortfolios
  /\ call' = [op |-> "create_portfolio", name |-> name]
  /\ IF PortfolioNamed(name) # <<>>
       THEN /\ result' = None
            /\ UNCHANGED <<portfolios, cash_pools>>
       ELSE /\ result' = Some(NextId(portfolios))
            /\ portfolios' = Append(portfolios,
                                    [id |-> NextId(portfolios), name |-> name])
            /\ cash_pools' = Append(cash_pools,
                                    DefaultCashPool(NextId(portfolios), name))
  /\ UNCHANGED <<pc, calcState, fetchState, portfolio_holdings, transactions, rules, prices,
                 session>>

\* add_transaction(...): lines 90-148.  An unknown portfolio or product returns
\* False before anything is written; a transaction_type outside the enum
\* raises KeyError inside the session block, which rolls back.
add_transaction(c) ==
  /\ pc \in {"PortfolioManager", "Application"}
  /\ Len(transactions) < MaxLedger
  /\ call' = c
  /\ IF \/ PortfolioNamed(c.portfolio_name) = <<>>
        \/ ProductOf(c.product_identifier) = None
        \/ Upper(c.transaction_type) \notin TransactionType
       THEN /\ result' = FALSE
            /\ UNCHANGED <<transactions, cash_pools>>
       ELSE /\ result' = TRUE
            /\ transactions' = Append(transactions, NewTransaction(c))
            /\ cash_pools' =
                 LET pools == PoolsOf(Head(PortfolioNamed(c.portfolio_name)).id)
                 IN [i \in DOMAIN cash_pools |->
                       IF pools # <<>> /\ cash_pools[i].id = Head(pools).id
                         THEN [cash_pools[i] EXCEPT
                                 !.current_balance = BalanceAfter(@, c)]
                         ELSE cash_pools[i]]
  /\ UNCHANGED <<pc, calcState, fetchState, portfolios, portfolio_holdings, rules, prices, session>>

\* What the flush of session.delete(portfolio) leaves of the tables (line 309):
\* the four relationships of Portfolio cascade the delete to its rows
\* (models.py 153-156); CashPool.transactions has no delete cascade
\* (models.py 269), so a transaction that stays and references a deleted pool
\* has cash_pool_id set to NULL; a rule's cash_pool_id is a plain column.
DeleteCascade(db, portfolio_id) ==
  LET pools == {db.cash_pools[i].id : i \in
                  {j \in DOMAIN db.cash_pools :
                     db.cash_pools[j].portfolio = portfolio_id}}
      kept == SelectSeq(db.transactions, LAMBDA t : t.portfolio # portfolio_id)
  IN [portfolios |-> SelectSeq(db.portfolios, LAMBDA p : p.id # portfolio_id),
      portfolio_holdings |->
        SelectSeq(db.portfolio_holdings, LAMBDA h : h.portfolio # portfolio_id),
      cash_pools |->
        SelectSeq(db.cash_pools, LAMBDA p : p.portfolio # portfolio_id),
      rules |-> SelectSeq(db.rules, LAMBDA r : r.portfolio # portfolio_id),
      transactions |->
        [i \in DOMAIN kept |->
           IF Truthy(kept[i].cash_pool) /\ kept[i].cash_pool[1] \in pools
             THEN [kept[i] EXCEPT !.cash_pool = None] ELSE kept[i]]]

\* delete_portfolio(portfolio_name): lines 305-316.
delete_portfolio(portfolio_name) ==
  /\ pc = "Application"
  /\ call' = [op |-> "delete_portfolio", portfolio_name |-> portfolio_name]
  /\ IF PortfolioNamed(portfolio_name) = <<>>
       THEN /\ result' = FALSE
            /\ UNCHANGED <<portfolios, portfolio_holdings, cash_pools,
                           transactions, rules>>
       ELSE LET db == DeleteCascade(
                        [portfolios |-> portfolios,
                         portfolio_holdings |-> portfolio_holdings,
                         cash_pools |-> cash_pools, rules |-> rules,
                         transactions |-> transactions],
                        Head(PortfolioNamed(portfolio_name)).id)
            IN /\ result' = TRUE
               /\ portfolios' = db.portfolios
               /\ portfolio_holdings' = db.portfolio_holdings
               /\ cash_pools' = db.cash_pools
               /\ rules' = db.rules
               /\ transactions' = db.transactions
  /\ UNCHANGED <<pc, calcState, fetchState, prices, session>>

\* Arguments of add_transaction: 10 units at R100 with fees 0 or 5 and taxes 2;
\* a purchase, a sale (also in lower case), an income and two cash types, and
\* one name outside the enum.
AddTransactionCalls ==
  [op : {"add_transaction"}, portfolio_name : PortfolioNames,
   product_identifier : {"NPN", "XXX"},
   transaction_type : {"BUY", "SELL", "sell", "DIVIDEND", "DEPOSIT", "WITHDRAWAL", "HOLD"},
   quantity : {10}, price : {100}, transaction_date : {1},
   fees : {0, 5}, taxes : {2}]

NextManager ==
  \/ \E name \in PortfolioNames : create_portfolio(name)
  \/ \E c \in AddTransactionCalls : add_transaction(c)

SpecManager == InitManager /\ [][NextManager]_vars

(***************************************************************************)
(* portfolio/transaction_automation.py                                     *)
(***************************************************************************)
\* Dates are day numbers: day 1 is 1 January of a non-leap year and every year
\* that follows has 365 days (the model's dates stay clear of a leap day).
MonthLengths == <<31, 28, 31, 30, 31, 30, 31, 31, 30, 31, 30, 31>>

DaysBefore == <<0, 31, 59, 90, 120, 151, 181, 212, 243, 273, 304, 334>>

MonthOf(d) ==
  CHOOSE m \in 1..12 :
    /\ DaysBefore[m] < ((d - 1) % 365) + 1
    /\ ((d - 1) % 365) + 1 <= DaysBefore[m] + MonthLengths[m]

\* current_date + relativedelta(months=n): same day of the month n months on,
\* clipped to the last day of that month.
AddMonths(d, n) ==
  LET day == ((d - 1) % 365) + 1 - DaysBefore[MonthOf(d)]
      k == (MonthOf(d) - 1) + n
      month == (k % 12) + 1
      year == ((d - 1) \div 365) + (k \div 12)
  IN year * 365 + DaysBefore[month]
       + (IF day > MonthLengths[month] THEN MonthLengths[month] ELSE day)

_calculate_next_date(current_date, frequency, custom_days) ==
  CASE frequency = "DAILY" -> current_date + 1
    [] frequency = "WEEKLY" -> current_date + 7
    [] frequency = "MONTHLY" -> AddMonths(current_date, 1)
    [] frequency = "QUARTERLY" -> AddMonths(current_date, 3)
    [] frequency = "SEMI_ANNUAL" -> AddMonths(current_date, 6)
    [] frequency = "ANNUAL" -> AddMonths(current_date, 12)
    [] frequency = "CUSTOM" /\ Truthy(custom_days) -> current_date + custom_days[1]
    [] OTHER -> AddMonths(current_date, 1)

\* date.max.toordinal(): 31 December 9999.
DateMaxOrdinal == 3652059

\* current_date + timedelta(days=custom_days) raises OverflowError when the sum
\* lies after date.max (line 281); custom_days of DateMaxOrdinal or more do so
\* from every current_date.
_calculate_next_date_raises(frequency, custom_days) ==
  frequency = "CUSTOM" /\ Truthy(custom_days) /\ custom_days[1] >= DateMaxOrdinal

\* tax_rate is held in percent.
\* Mutant: the tax is not taken off.
_apply_tax_Gross(amount, tax_rate) == amount

_apply_tax(amount, tax_rate) ==
  IF tax_rate = None \/ tax_rate[1] = 0 THEN amount
  ELSE (amount * (100 - tax_rate[1])) \div 100

\* The committed ledger of one portfolio, ordered by transaction_date
\* (LedgerCalculator._load_transactions).
_load_transactions(portfolio) ==
  SortSeq(SelectSeq(transactions, LAMBDA t : t.portfolio = portfolio),
          LAMBDA a, b : a.transaction_date < b.transaction_date)

\* The session does not autoflush: the query sees the committed ledger only.
_get_current_quantity(rule) ==
  IF ~Truthy(rule.product_id) THEN 0
  ELSE LET h == get_current_holdings(_load_transactions(rule.portfolio))
       IN IF rule.product_id[1] \in DOMAIN h THEN h[rule.product_id[1]] ELSE 0

\* The percentage methods are not among the rules created here; a rule with no
\* recognised method falls through to return 0.
_calculate_amount(rule) ==
  CASE rule.calculation_method \in {"PER_SHARE", "PER_UNIT"} ->
         rule.amount_value * _get_current_quantity(rule)
    [] rule.calculation_method = "FIXED_AMOUNT" -> rule.amount_value
    [] OTHER -> 0

\* The Transaction _execute_rule adds for rule number id (lines 111-150).
RuleTransaction(rule, id, execution_date) ==
  LET amount == _calculate_amount(rule)
      income == rule.transaction_type \in {"DIVIDEND", "COUPON", "INTEREST"}
      net_amount == IF income THEN _apply_tax(amount, rule.tax_rate)
                    ELSE 0 - Abs(amount)
      taxes == IF income /\ Truthy(rule.tax_rate) THEN amount - net_amount ELSE 0
  IN Txn(rule.transaction_type, rule.product_id, execution_date,
         IF rule.applies_to_quantity /\ Truthy(rule.product_id)
           THEN Some(_get_current_quantity(rule)) ELSE None,
         IF rule.calculation_method \in {"PER_SHARE", "PER_UNIT"}
           THEN Some(rule.amount_value) ELSE None,
         Some(net_amount), None)
     @@ [portfolio |-> rule.portfolio,
         cash_pool |-> IF rule.affects_cash_pool THEN rule.cash_pool ELSE None,
         gross_amount |-> amount, fees |-> 0, taxes |-> taxes,
         is_auto_generated |-> TRUE, rule |-> id]

\* Mutant: the BUY takes the reinvested amount as its quantity.
DripTransaction_Bought(rule, id, net_amount, execution_date) ==
  Txn("BUY", rule.reinvestment_product_id, execution_date, Some(net_amount),
      Some(1), Some(net_amount), None)
  @@ [portfolio |-> rule.portfolio, cash_pool |-> None,
      gross_amount |-> net_amount, fees |-> 0, taxes |-> 0,
      is_auto_generated |-> TRUE, rule |-> id]

\* The placeholder BUY of _process_reinvestment (lines 242-254).
DripTransaction(rule, id, net_amount, execution_date) ==
  Txn("BUY", rule.reinvestment_product_id, execution_date, Some(0), Some(0),
      Some(net_amount), None)
  @@ [portfolio |-> rule.portfolio, cash_pool |-> None,
      gross_amount |-> net_amount, fees |-> 0, taxes |-> 0,
      is_auto_generated |-> TRUE, rule |-> id]

\* Mutant: the magnitude of the amount is added.
_update_cash_pool_Abs(pools, cash_pool_id, amount) ==
  [i \in DOMAIN pools |->
     IF pools[i].id = cash_pool_id
       THEN [pools[i] EXCEPT !.current_balance = @ + Abs(amount)]
       ELSE pools[i]]

\* _update_cash_pool(cash_pool_id, amount): lines 259-261; a pool that does
\* not exist is passed over.
_update_cash_pool(pools, cash_pool_id, amount) ==
  [i \in DOMAIN pools |->
     IF pools[i].id = cash_pool_id
       THEN [pools[i] EXCEPT !.current_balance = @ + amount]
       ELSE pools[i]]

\* Mutant: no skip of a zero amount (lines 106-108): the row is posted and
\* the schedule advanced whatever the amount; the cash pool step is left out.
_execute_rule_NoSkip(db, id, execution_date) ==
  LET rule == db.rules[id]
      posted == RuleTransaction(rule, id, execution_date)
  IN [db EXCEPT
       !.transactions = @ \o <<posted>>,
       !.rules[id].last_execution_date = Some(execution_date),
       !.rules[id].next_execution_date =
          _calculate_next_date(execution_date, rule.frequency,
                               rule.custom_frequency_days)]

\* Mutant: the execution dates of the rule are left as they were (lines
\* 160-166 dropped).
_execute_rule_NoAdvance(db, id, execution_date) ==
  LET rule == db.rules[id]
      posted == RuleTransaction(rule, id, execution_date)
      pool == rule.cash_pool
  IN IF _calculate_amount(rule) = 0 THEN db
     ELSE [db EXCEPT
       !.transactions = @ \o <<posted>>,
       !.cash_pools =
          IF rule.affects_cash_pool /\ Truthy(pool)
            THEN _update_cash_pool(@, pool[1], posted.net_amount[1])
            ELSE @]

\* _execute_rule(rule, execution_date) on the unit of work db: the rows added
\* to the session, the cash pool balances and the rules.
_execute_rule(db, id, execution_date) ==
  LET rule == db.rules[id]
      posted == RuleTransaction(rule, id, execution_date)
      net_amount == posted.net_amount[1]
      drip == rule.is_reinvested /\ net_amount > 0
                /\ Truthy(rule.reinvestment_product_id)
      pool == rule.cash_pool
  IN IF _calculate_amount(rule) = 0 THEN db
     ELSE [db EXCEPT
       !.transactions =
          (@ \o <<posted>>)
            \o (IF drip THEN <<DripTransaction(rule, id, net_amount, execution_date)>>
                ELSE <<>>),
       !.cash_pools =
          IF rule.affects_cash_pool /\ Truthy(pool)
            THEN _update_cash_pool(@, pool[1], net_amount)
            ELSE @,
       !.rules[id].last_execution_date = Some(execution_date),
       !.rules[id].next_execution_date =
          IF _calculate_next_date_raises(rule.frequency, rule.custom_frequency_days)
            THEN @
            ELSE _calculate_next_date(execution_date, rule.frequency,
                                      rule.custom_frequency_days)]

\* _execute_rule raises at its last statement (line 168) when the rule has no
\* transaction_type: None has no attribute value.  Everything before it has
\* been done by then; the skip of a zero amount returns earlier (line 108).
\* It raises in the assignment of next_execution_date (lines 162-166) when
\* _calculate_next_date does: the row, the cash pool update and
\* last_execution_date are in the session by then.
_execute_rule_raises(rule) ==
  /\ _calculate_amount(rule) # 0
  /\ \/ rule.transaction_type = "NULL"
     \/ _calculate_next_date_raises(rule.frequency, rule.custom_frequency_days)

\* Mutant: the already-executed-today test dropped.
_should_execute_Again(rule, as_of_date) ==
  ~(rule.start_date # None /\ as_of_date < rule.start_date[1])

_should_execute(rule, as_of_date) ==
  /\ ~(rule.start_date # None /\ as_of_date < rule.start_date[1])
  /\ rule.last_execution_date # Some(as_of_date)

\* The ids the query of process_pending_events returns (lines 64-71).
DueRules(as_of_date) ==
  SelectSeq([i \in 1..Len(rules) |-> i],
            LAMBDA i : /\ rules[i].is_active
                       /\ rules[i].next_execution_date <= as_of_date
                       /\ (rules[i].end_date = None
                             \/ rules[i].end_date[1] >= as_of_date))

RECURSIVE ProcessRules(_, _, _)

\* Mutant: no try/except around _execute_rule (lines 76-80); the loop ends at
\* the rule that raises.
ProcessRules_Abort(db, ids, as_of_date) ==
  IF ids = <<>> THEN db
  ELSE IF ~_should_execute(db.rules[Head(ids)], as_of_date)
         THEN ProcessRules(db, Tail(ids), as_of_date)
       ELSE IF _execute_rule_raises(db.rules[Head(ids)])
         THEN [_execute_rule(db, Head(ids), as_of_date)
                 EXCEPT !.executed = @ \cup {Head(ids)}]
       ELSE ProcessRules([_execute_rule(db, Head(ids), as_of_date)
                            EXCEPT !.executed = @ \cup {Head(ids)},
                                   !.executed_count = @ + 1],
                         Tail(ids), as_of_date)

\* The for-loop of process_pending_events over the queried rules (lines 74-80).
ProcessRules(db, ids, as_of_date) ==
  IF ids = <<>> THEN db
  ELSE ProcessRules(
         IF _should_execute(db.rules[Head(ids)], as_of_date)
           THEN [_execute_rule(db, Head(ids), as_of_date)
                   EXCEPT !.executed = @ \cup {Head(ids)},
                          !.executed_count =
                             IF _execute_rule_raises(db.rules[Head(ids)])
                               THEN @ ELSE @ + 1]
           ELSE db,
         Tail(ids), as_of_date)

RuleIds == {1, 2}

\* The rule_config dicts rules are created from, all of portfolio 1 and due on
\* 15 January (day 15): a monthly dividend of R100 with or without a start
\* date of 15 February (day 46) or an end date of 15 February and an execution
\* on record for 1 March (day 60); a monthly or weekly fee of R100; a monthly
\* dividend whose amount is zero; taxed interest (20%); a coupon with a tax
\* rate of zero that leaves the cash pool alone; a dividend of -R100; a tax
\* with no cash pool; and a rule that has no transaction_type ("NULL").
RuleConfigs ==
  {c \in
     [portfolio : {1}, product_id : {Some(1)}, cash_pool : {Some(1)},
      transaction_type : {"DIVIDEND"}, calculation_method : {"FIXED_AMOUNT"},
      amount_value : {100}, applies_to_quantity : {TRUE},
      frequency : {"MONTHLY"}, custom_frequency_days : {None},
      next_execution_date : {15},
      last_execution_date : {None, Some(60)},
      is_reinvested : {FALSE}, reinvestment_product_id : {None},
      tax_rate : {None}, affects_cash_pool : {TRUE}, is_active : {TRUE},
      start_date : {None, Some(46)}, end_date : {None, Some(46)}] :
     c.start_date = None \/ c.end_date = None}
  \cup
  [portfolio : {1}, product_id : {Some(1)}, cash_pool : {Some(1)},
   transaction_type : {"FEE"}, calculation_method : {"FIXED_AMOUNT"},
   amount_value : {100}, applies_to_quantity : {TRUE},
   frequency : {"MONTHLY", "WEEKLY"}, custom_frequency_days : {None},
   next_execution_date : {15}, last_execution_date : {None},
   is_reinvested : {FALSE}, reinvestment_product_id : {None},
   tax_rate : {None}, affects_cash_pool : {TRUE}, is_active : {TRUE},
   start_date : {None}, end_date : {None}]
  \cup
  [portfolio : {1}, product_id : {Some(1)}, cash_pool : {Some(1)},
   transaction_type : {"DIVIDEND"}, calculation_method : {"FIXED_AMOUNT"},
   amount_value : {0}, applies_to_quantity : {TRUE},
   frequency : {"MONTHLY"}, custom_frequency_days : {None},
   next_execution_date : {15}, last_execution_date : {None},
   is_reinvested : {FALSE}, reinvestment_product_id : {None},
   tax_rate : {None}, affects_cash_pool : {TRUE}, is_active : {TRUE},
   start_date : {None}, end_date : {None}]
  \cup
  {[portfolio |-> 1, product_id |-> Some(1), cash_pool |-> v.cash_pool,
    transaction_type |-> v.transaction_type,
    calculation_method |-> "FIXED_AMOUNT", amount_value |-> v.amount_value,
    applies_to_quantity |-> TRUE, frequency |-> "MONTHLY",
    custom_frequency_days |-> None, next_execution_date |-> 15,
    last_execution_date |-> None, is_reinvested |-> FALSE,
    reinvestment_product_id |-> None, tax_rate |-> v.tax_rate,
    affects_cash_pool |-> v.affects_cash_pool, is_active |-> TRUE,
    start_date |-> None, end_date |-> None] :
   v \in {[transaction_type |-> "INTEREST", amount_value |-> 100,
           tax_rate |-> Some(20), cash_pool |-> Some(1),
           affects_cash_pool |-> TRUE],
          [transaction_type |-> "COUPON", amount_value |-> 100,
           tax_rate |-> Some(0), cash_pool |-> Some(1),
           affects_cash_pool |-> FALSE],
          [transaction_type |-> "DIVIDEND", amount_value |-> -100,
           tax_rate |-> None, cash_pool |-> Some(1),
           affects_cash_pool |-> TRUE],
          [transaction_type |-> "TAX", amount_value |-> 100,
           tax_rate |-> None, cash_pool |-> None,
           affects_cash_pool |-> TRUE],
          [transaction_type |-> "NULL", amount_value |-> 100,
           tax_rate |-> None, cash_pool |-> Some(1),
           affects_cash_pool |-> TRUE]}}

\* 15 January, 15 February and 1 March of the first year.
AsOfDates == {15, 46, 60}

InitEngine == pc = "RecurringTransactionEngine" /\ Idle

\* create_rule(portfolio_id, rule_config): lines 42-48.
create_rule(rule_config) ==
  /\ pc \in {"RecurringTransactionEngine", "Application"}
  /\ Len(rules) + 1 \in RuleIds
  /\ call' = [op |-> "create_rule"]
  /\ rules' = Append(rules, rule_config)
  /\ result' = Some(Len(rules) + 1)
  /\ UNCHANGED <<pc, calcState, fetchState, portfolios, portfolio_holdings, cash_pools, transactions, prices, session>>

\* process_pending_events(as_of_date): lines 60-84.  executed records the rules
\* handed to _execute_rule at line 77.
process_pending_events(as_of_date) ==
  /\ pc \in {"RecurringTransactionEngine", "Application"}
  /\ Len(transactions) < MaxLedger
  /\ call' = [op |-> "process_pending_events", as_of_date |-> as_of_date]
  /\ LET db == ProcessRules([transactions |-> transactions,
                             cash_pools |-> cash_pools, rules |-> rules,
                             executed |-> {}, executed_count |-> 0],
                            DueRules(as_of_date), as_of_date)
     IN /\ transactions' = db.transactions
        /\ cash_pools' = db.cash_pools
        /\ rules' = db.rules
        /\ result' = [executed_count |-> db.executed_count,
                      executed |-> db.executed]
  /\ UNCHANGED <<pc, calcState, fetchState, portfolios, portfolio_holdings, prices, session>>

\* pause_rule(rule_id): lines 304-308.
pause_rule(rule_id) ==
  /\ pc = "RecurringTransactionEngine"
  /\ call' = [op |-> "pause_rule", rule_id |-> rule_id]
  /\ rules' = IF rule_id \in DOMAIN rules
                THEN [rules EXCEPT ![rule_id].is_active = FALSE] ELSE rules
  /\ result' = None
  /\ UNCHANGED <<pc, calcState, fetchState, portfolios, portfolio_holdings, cash_pools, transactions, prices, session>>

\* resume_rule(rule_id): lines 312-316.
resume_rule(rule_id) ==
  /\ pc = "RecurringTransactionEngine"
  /\ call' = [op |-> "resume_rule", rule_id |-> rule_id]
  /\ rules' = IF rule_id \in DOMAIN rules
                THEN [rules EXCEPT ![rule_id].is_active = TRUE] ELSE rules
  /\ result' = None
  /\ UNCHANGED <<pc, calcState, fetchState, portfolios, portfolio_holdings, cash_pools, transactions, prices, session>>

NextEngine ==
  \/ create_portfolio("A")
  \/ \E rule_config \in RuleConfigs : create_rule(rule_config)
  \/ \E as_of_date \in AsOfDates : process_pending_events(as_of_date)
  \/ \E rule_id \in RuleIds : pause_rule(rule_id)
  \/ \E rule_id \in RuleIds : resume_rule(rule_id)

SpecEngine == InitEngine /\ [][NextEngine]_vars

(***************************************************************************)
(* The application: the manager and the engine on one database             *)
(***************************************************************************)

\* A database that an earlier release wrote: portfolio "A" with one row of
\* the legacy table portfolio_holdings (models.py 159-177) and no cash pool.
InitApplication ==
  /\ pc = "Application"
  /\ IdleCalculator
  /\ portfolios = <<[id |-> 1, name |-> "A"]>>
  /\ portfolio_holdings = <<[portfolio |-> 1, product_id |-> 1, quantity |-> 10]>>
  /\ cash_pools = <<>>
  /\ transactions = <<>>
  /\ rules = <<>>
  /\ prices = <<>>
  /\ session = NoSession
  /\ call = <<>>
  /\ IdleFetcher

\* Bound: the engine stops posting once a pool is overdrawn this far.
MaxOverdraft == 1100

\* The rule's portfolio_id and cash_pool_id are independent arguments
\* (transaction_automation.py 42-43, event_templates.py).
NextApplication ==
  \/ \E name \in PortfolioNames : create_portfolio(name)
  \/ \E c \in {d \in AddTransactionCalls :
                 /\ d.product_identifier = "NPN"
                 /\ d.transaction_type = "BUY"
                 /\ d.fees = 0} : add_transaction(c)
  \/ \E c \in {d \in RuleConfigs : d.transaction_type = "FEE"
                                     /\ d.frequency = "MONTHLY"},
        p \in {1, 2} : create_rule([c EXCEPT !.portfolio = p])
  \/ /\ \A i \in DOMAIN cash_pools :
          cash_pools[i].current_balance > -MaxOverdraft
     /\ process_pending_events(15)
  \/ \E name \in PortfolioNames : delete_portfolio(name)

SpecApplication == InitApplication /\ [][NextApplication]_vars

\* Rules with a reinvestment: a monthly dividend of R100 or of -R100 of
\* portfolio 1, flagged is_reinvested or not, with product 1, product 2 or no
\* reinvestment product; a reinvested monthly fee of R100; and a reinvested
\* dividend of R100 due every DateMaxOrdinal days.
ReinvestmentConfigs ==
  {[portfolio |-> 1, product_id |-> Some(1), cash_pool |-> Some(1),
    transaction_type |-> v.transaction_type,
    calculation_method |-> "FIXED_AMOUNT", amount_value |-> v.amount_value,
    applies_to_quantity |-> TRUE, frequency |-> v.frequency,
    custom_frequency_days |-> v.custom_frequency_days,
    next_execution_date |-> 15, last_execution_date |-> None,
    is_reinvested |-> v.is_reinvested,
    reinvestment_product_id |-> v.reinvestment_product_id, tax_rate |-> None,
    affects_cash_pool |-> TRUE, is_active |-> TRUE,
    start_date |-> None, end_date |-> None] :
   v \in [transaction_type : {"DIVIDEND"}, amount_value : {100, -100},
          frequency : {"MONTHLY"}, custom_frequency_days : {None},
          is_reinvested : BOOLEAN,
          reinvestment_product_id : {None, Some(1), Some(2)}]
         \cup
         {[transaction_type |-> "FEE", amount_value |-> 100,
           frequency |-> "MONTHLY", custom_frequency_days |-> None,
           is_reinvested |-> TRUE, reinvestment_product_id |-> Some(2)],
          [transaction_type |-> "DIVIDEND", amount_value |-> 100,
           frequency |-> "CUSTOM",
           custom_frequency_days |-> Some(DateMaxOrdinal),
           is_reinvested |-> TRUE, reinvestment_product_id |-> Some(2)]}}

InitReinvestment == pc = "Application" /\ Idle

\* The manager and the engine on one database: a portfolio, a purchase of 10
\* units of NPN, rules with a reinvestment and their execution as of
\* 15 January and 15 February.
NextReinvestment ==
  \/ create_portfolio("A")
  \/ \E c \in {d \in AddTransactionCalls :
                 /\ d.portfolio_name = "A"
                 /\ d.product_identifier = "NPN"
                 /\ d.transaction_type = "BUY"
                 /\ d.fees = 0} : add_transaction(c)
  \/ \E rule_config \in ReinvestmentConfigs : create_rule(rule_config)
  \/ \E as_of_date \in {15, 46} : process_pending_events(as_of_date)

SpecReinvestment == InitReinvestment /\ [][NextReinvestment]_vars

(***************************************************************************)
(* scripts/migrate_to_transaction_ledger.py                                *)
(***************************************************************************)
\* Bound: rows of the legacy table portfolio_holdings.
MaxHoldings == 2

\* Bound: rows the cash_pools table may hold when the cash pool step starts.
MaxPools == 3

\* Legacy PortfolioHolding rows: 10 or 20 units of product 1 bought at R100 on
\* day 1 for portfolio 1 or 2.  The table has no unique key.
LegacyHoldings ==
  [portfolio : {1, 2}, product_id : {1}, quantity : {10, 20},
   entry_price : {100}, entry_date : {1}]

\* The database the script finds: portfolio "A" with any base currency and
\* either active or not, portfolio "B" (ZAR, active), legacy holdings, and
\* the new tables just created by init_db().
InitMigration ==
  /\ pc = "migrate_to_transaction_ledger"
  /\ IdleCalculator
  /\ portfolios \in
       {<<[id |-> 1, name |-> "A", base_currency |-> c, is_active |-> a],
          [id |-> 2, name |-> "B", base_currency |-> "ZAR", is_active |-> TRUE]>> :
          c \in {"ZAR", "USD"}, a \in BOOLEAN}
  /\ portfolio_holdings \in UNION {[1..n -> LegacyHoldings] : n \in 0..MaxHoldings}
  /\ cash_pools = <<>>
  /\ transactions = <<>>
  /\ rules = <<>>
  /\ prices = <<>>
  /\ session = NoSession
  /\ call = <<>>
  /\ IdleFetcher

\* The for-loop of create_default_cash_pools (lines 82-101) over the active
\* portfolios: the query looks for a pool of the portfolio in 'ZAR', the pool
\* added takes the portfolio's base_currency.
RECURSIVE AddDefaultPools(_, _)
AddDefaultPools(pools, active) ==
  IF active = <<>> THEN pools
  ELSE LET portfolio == Head(active)
           existing_pool ==
             SelectSeq(pools, LAMBDA p : /\ p.portfolio = portfolio.id
                                         /\ p.currency = "ZAR")
       IN AddDefaultPools(
            IF existing_pool = <<>>
              THEN Append(pools,
                          [id |-> NextId(pools), portfolio |-> portfolio.id,
                           name |-> <<portfolio.name, " - Cash">>,
                           currency |-> portfolio.base_currency,
                           account_type |-> "CHECKING", current_balance |-> 0])
              ELSE pools,
            Tail(active))

\* create_default_cash_pools(session): lines 81-103.
create_default_cash_pools ==
  /\ pc = "migrate_to_transaction_ledger"
  /\ Len(cash_pools) < MaxPools
  /\ call' = [op |-> "create_default_cash_pools"]
  /\ cash_pools' = AddDefaultPools(cash_pools,
                                   SelectSeq(portfolios, LAMBDA p : p.is_active))
  /\ result' = None
  /\ UNCHANGED <<pc, calcState, fetchState, portfolios, portfolio_holdings, transactions,
                 rules, prices, session>>

\* Mutant: no holding is taken for migrated already.
ExistingTransaction_None(stored, holding) == <<>>

\* The query of lines 124-130 for a holding: the session does not autoflush,
\* so it finds the rows stored before the call only.
ExistingTransaction(stored, holding) ==
  SelectSeq(stored, LAMBDA t : /\ t.portfolio = holding.portfolio
                               /\ t.product_id = Some(holding.product_id)
                               /\ t.transaction_date = holding.entry_date
                               /\ t.quantity = Some(holding.quantity)
                               /\ t.price = Some(holding.entry_price))

\* The for-loop of migrate_holdings_to_transactions (lines 122-158).
RECURSIVE MigrateHoldings(_, _, _)
MigrateHoldings(ledger, stored, legacy) ==
  IF legacy = <<>> THEN ledger
  ELSE LET holding == Head(legacy)
           gross_amount == holding.quantity * holding.entry_price
       IN MigrateHoldings(
            IF ExistingTransaction(stored, holding) # <<>> THEN ledger
            ELSE Append(ledger,
                   Txn("BUY", Some(holding.product_id), holding.entry_date,
                       Some(holding.quantity), Some(holding.entry_price),
                       Some(gross_amount), None)
                   @@ [portfolio |-> holding.portfolio, cash_pool |-> None,
                       gross_amount |-> gross_amount, fees |-> 0, taxes |-> 0,
                       is_auto_generated |-> FALSE, rule |-> 0]),
            stored, Tail(legacy))

\* migrate_holdings_to_transactions(session): lines 115-161.
migrate_holdings_to_transactions ==
  /\ pc = "migrate_to_transaction_ledger"
  /\ call' = [op |-> "migrate_holdings_to_transactions"]
  /\ transactions' = MigrateHoldings(transactions, transactions, portfolio_holdings)
  /\ result' = None
  /\ UNCHANGED <<pc, calcState, fetchState, portfolios, portfolio_holdings, cash_pools,
                 rules, prices, session>>

NextMigration ==
  \/ create_default_cash_pools
  \/ migrate_holdings_to_transactions

SpecMigration == InitMigration /\ [][NextMigration]_vars

(***************************************************************************)
(* data/price_fetcher.py: store_prices                                     *)
(***************************************************************************)
\* Bound: rows of the DataFrame handed to store_prices.
MaxBatch == 2

\* A DataFrame row: the day its timestamp falls on and its close; day 1 comes
\* with two closes.
PriceRows == {[date |-> 1, close |-> 10], [date |-> 1, close |-> 11],
              [date |-> 2, close |-> 10]}

Batches == UNION {[1..n -> PriceRows] : n \in 0..MaxBatch}

\* Mutant: a Price row is added whether or not the date is already stored.
UpsertPrice_Insert(table, stored, product_id, row) ==
  Append(table, [product_id |-> product_id, date |-> row.date, close |-> row.close])

\* Body of the for-loop of store_prices (lines 149-181).  The session does not
\* autoflush, so the query finds only the rows stored before the call, the
\* first stored of them.
UpsertPrice(table, stored, product_id, row) ==
  LET existing == {i \in 1..stored : /\ table[i].product_id = product_id
                                     /\ table[i].date = row.date}
  IN IF existing # {}
       THEN [table EXCEPT ![CHOOSE i \in existing : \A j \in existing : i <= j].close
                            = row.close]
       ELSE Append(table, [product_id |-> product_id, date |-> row.date,
                           close |-> row.close])

RECURSIVE UpsertAll(_, _, _, _)
UpsertAll(table, stored, product_id, batch) ==
  IF batch = <<>> THEN table
  ELSE UpsertAll(UpsertPrice(table, stored, product_id, Head(batch)),
                 stored, product_id, Tail(batch))

\* The unique index idx_product_date admits the table.
UniqueProductDate(table) ==
  \A i, j \in DOMAIN table :
    (table[i].product_id = table[j].product_id /\ table[i].date = table[j].date)
      => i = j

\* Mutant: only rows dated before the target date are looked at.
PriceAtDate_Before(table, product_id, target_date) ==
  LET prior == SelectSeq(table, LAMBDA p : /\ p.product_id = product_id
                                           /\ p.date < target_date)
  IN IF prior = <<>> THEN None
     ELSE Some(SortSeq(prior, LAMBDA p, q : p.date > q.date)[1].close)

\* The two queries of get_price_at_date (lines 340-359): the first row of the
\* product dated target_date, else the first of its rows dated on or before
\* target_date in descending date order, else None.
PriceAtDate(table, product_id, target_date) ==
  LET exact == SelectSeq(table, LAMBDA p : /\ p.product_id = product_id
                                           /\ p.date = target_date)
      prior == SelectSeq(table, LAMBDA p : /\ p.product_id = product_id
                                           /\ p.date <= target_date)
  IN IF exact # <<>> THEN Some(Head(exact).close)
     ELSE IF prior = <<>> THEN None
     ELSE Some(SortSeq(prior, LAMBDA p, q : p.date > q.date)[1].close)

InitPrices == pc = "PriceFetcher" /\ Idle

\* Mutant: what the session holds stays in the table.
RollbackPrices_Keep(stored, pending) == pending

\* The except clause of store_prices (lines 186-189): session.rollback()
\* discards what the session holds.
RollbackPrices(stored, pending) == stored

\* What store_prices(product_id, prices_df) leaves of the table and the count
\* it returns: lines 141-193.  raises_at is the row of the frame whose index
\* has no date() (line 149), 0 when every row has one; commit_ok is whether
\* the database accepts the commit apart from the unique index.
StoredPrices(product_id, batch, raises_at, commit_ok) ==
  LET flushed == UpsertAll(prices, Len(prices), product_id, batch) IN
    IF batch = <<>>
      THEN [stored_count |-> 0, prices |-> prices]
    ELSE IF raises_at \in DOMAIN batch
      THEN [stored_count |-> 0,
            prices |-> RollbackPrices(prices,
                         UpsertAll(prices, Len(prices), product_id,
                                   SubSeq(batch, 1, raises_at - 1)))]
    ELSE IF commit_ok /\ UniqueProductDate(flushed)
      THEN [stored_count |-> Len(batch), prices |-> flushed]
      ELSE [stored_count |-> 0, prices |-> RollbackPrices(prices, flushed)]

\* store_prices(product_id, prices_df).
store_prices(product_id, batch, raises_at, commit_ok) ==
  /\ pc = "PriceFetcher"
  /\ call' = [op |-> "store_prices", product_id |-> product_id,
              prices_df |-> batch, raises_at |-> raises_at,
              commit_ok |-> commit_ok]
  /\ result' = StoredPrices(product_id, batch, raises_at, commit_ok).stored_count
  /\ prices' = StoredPrices(product_id, batch, raises_at, commit_ok).prices
  /\ UNCHANGED <<pc, calcState, fetchState, portfolios, portfolio_holdings, cash_pools, transactions, rules, session>>

\* get_price_at_date(product_id, target_date): lines 336-359.
get_price_at_date(product_id, target_date) ==
  /\ pc = "PriceFetcher"
  /\ call' = [op |-> "get_price_at_date", product_id |-> product_id,
              target_date |-> target_date]
  /\ result' = PriceAtDate(prices, product_id, target_date)
  /\ UNCHANGED <<pc, calcState, fetchState, portfolios, portfolio_holdings, cash_pools,
                 transactions, rules, prices, session>>

NextPrices ==
  \/ \E product_id \in Products, batch \in Batches, commit_ok \in BOOLEAN :
       store_prices(product_id, batch, 0, commit_ok)
  \/ \E product_id \in Products, target_date \in 1..3 :
       get_price_at_date(product_id, target_date)

SpecPrices == InitPrices /\ [][NextPrices]_vars

\* store_prices for one product with frames in which a row may raise.
NextStorePrices ==
  \E batch \in Batches, raises_at \in 0..MaxBatch, commit_ok \in BOOLEAN :
    /\ raises_at <= Len(batch)
    /\ store_prices(1, batch, raises_at, commit_ok)

SpecStorePrices == InitPrices /\ [][NextStorePrices]_vars

\* The catalogue update_product_prices works on: product 1 has API data,
\* product 2 has none, and no product has id 3.  Neither has been updated.
InitUpdatePrices ==
  /\ pc = "PriceFetcher"
  /\ IdleCalculator
  /\ portfolios = <<>> /\ portfolio_holdings = <<>> /\ cash_pools = <<>>
  /\ transactions = <<>> /\ rules = <<>> /\ prices = <<>>
  /\ session = NoSession /\ call = <<>>
  /\ products = <<[id |-> 1, has_api_data |-> TRUE, last_updated |-> None],
                  [id |-> 2, has_api_data |-> FALSE, last_updated |-> None]>>
  /\ requests = <<>> /\ clock = 0 /\ admitted = <<>>

\* session.query(InvestmentProduct).get(product_id): line 209.
ProductWithId(product_id) ==
  SelectSeq(products, LAMBDA p : p.id = product_id)

\* update_product_prices(product_id): lines 206-243.  fetched is the frame
\* fetch_historical_prices returns, raises_at and commit_ok are those of the
\* store_prices call, stamp_ok is whether the commit of line 235 succeeds and
\* today is date.today().  The return value of store_prices is only logged.
update_product_prices(product_id, fetched, raises_at, commit_ok, stamp_ok, today) ==
  /\ pc = "PriceFetcher"
  /\ call' = [op |-> "update_product_prices", product_id |-> product_id,
              prices_df |-> fetched, raises_at |-> raises_at,
              commit_ok |-> commit_ok, stamp_ok |-> stamp_ok, today |-> today]
  /\ IF \/ ProductWithId(product_id) = <<>>
        \/ ~Head(ProductWithId(product_id)).has_api_data
        \/ fetched = <<>>
       THEN result' = FALSE /\ UNCHANGED <<prices, products>>
       ELSE /\ prices' = StoredPrices(product_id, fetched, raises_at, commit_ok).prices
            /\ IF stamp_ok
                 THEN /\ products' =
                           [i \in DOMAIN products |->
                              IF products[i].id = product_id
                                THEN [products[i] EXCEPT !.last_updated = Some(today)]
                                ELSE products[i]]
                      /\ result' = TRUE
                 ELSE result' = FALSE /\ UNCHANGED products
  /\ UNCHANGED <<pc, calcState, portfolios, portfolio_holdings, cash_pools,
                 transactions, rules, session, requests, clock, admitted>>

\* Product ids asked for, the days the updates run on and the frames fetched:
\* no history or the close of one day.
ProductIds == {1, 2, 3}
UpdateDays == {5, 6}
FetchedFrames == {b \in Batches : Len(b) <= 1}

NextUpdatePrices ==
  \E product_id \in ProductIds, fetched \in FetchedFrames, raises_at \in 0..1,
     commit_ok \in BOOLEAN, stamp_ok \in BOOLEAN, today \in UpdateDays :
    /\ raises_at <= Len(fetched)
    /\ update_product_prices(product_id, fetched, raises_at, commit_ok,
                             stamp_ok, today)

SpecUpdatePrices == InitUpdatePrices /\ [][NextUpdatePrices]_vars

(***************************************************************************)
(* database/session.py: get_db_session                                     *)
(***************************************************************************)
\* Bound: sessions opened one after the other.
MaxSessions == 2

Objects == {1, 2}

\* What a managed block may raise, and what a failing commit raises.
Raisable == {"ValueError", "KeyboardInterrupt"}

\* The classes "except Exception" catches.
IsException(e) == e \in {"ValueError", "OperationalError"}

InitSession == pc = "get_db_session" /\ Idle

\* session = SessionLocal(); yield session  (lines 66-68)
Enter ==
  /\ pc \in {"get_db_session", "exited"}
  /\ session.opened < MaxSessions
  /\ session' = [NoSession EXCEPT !.database = session.database,
                                  !.before = session.database,
                                  !.opened = session.opened + 1]
  /\ pc' = "block"
  /\ UNCHANGED <<result, calcState, fetchState, portfolios, portfolio_holdings, cash_pools, transactions, rules,
                 prices, call>>

\* The managed block: session.add(obj)
BlockAdd(obj) ==
  /\ pc = "block"
  /\ session' = [session EXCEPT !.new = @ \cup {obj}, !.written = @ \cup {obj}]
  /\ UNCHANGED <<pc, result, calcState, fetchState, portfolios, portfolio_holdings, cash_pools, transactions,
                 rules, prices, call>>

\* The managed block runs to its end, or leaves by return: either way the
\* generator resumes after its yield.
BlockEnds(how) ==
  /\ pc = "block"
  /\ session' = [session EXCEPT !.block = how]
  /\ pc' = "commit"
  /\ UNCHANGED <<result, calcState, fetchState, portfolios, portfolio_holdings, cash_pools, transactions, rules,
                 prices, call>>

\* The managed block raises e, thrown into the generator at its yield.
BlockRaises(e) ==
  /\ pc = "block"
  /\ session' = [session EXCEPT !.block = "raised", !.error = Some(e)]
  /\ pc' = IF IsException(e) THEN "except" ELSE "finally"
  /\ UNCHANGED <<result, calcState, fetchState, portfolios, portfolio_holdings, cash_pools, transactions, rules,
                 prices, call>>

\* session.commit()  (line 69), which the database accepts or not.
Commit(ok) ==
  /\ pc = "commit"
  /\ session' = IF ok
       THEN [session EXCEPT !.commit_calls = @ + 1,
                            !.database = @ \cup session.new, !.new = {}]
       ELSE [session EXCEPT !.commit_calls = @ + 1,
                            !.error = Some("OperationalError")]
  /\ pc' = IF ok THEN "finally" ELSE "except"
  /\ UNCHANGED <<result, calcState, fetchState, portfolios, portfolio_holdings, cash_pools, transactions, rules,
                 prices, call>>

\* Mutant: the except clause re-raises without rolling back.
ExceptClause_NoRollback(s) == [s EXCEPT !.raised = s.error]

\* except Exception: session.rollback(); raise  (lines 70-73)
ExceptClause(s) ==
  [s EXCEPT !.rollback_calls = @ + 1, !.new = {}, !.raised = s.error]

Except ==
  /\ pc = "except"
  /\ session' = ExceptClause(session)
  /\ pc' = "finally"
  /\ UNCHANGED <<result, calcState, fetchState, portfolios, portfolio_holdings, cash_pools, transactions, rules,
                 prices, call>>

\* finally: session.close()  (lines 74-75).  Closing discards what is still
\* pending; an exception the except clause did not catch propagates.
Finally ==
  /\ pc = "finally"
  /\ session' = [session EXCEPT !.close_calls = @ + 1, !.new = {},
                                !.raised = session.error]
  /\ pc' = "exited"
  /\ UNCHANGED <<result, calcState, fetchState, portfolios, portfolio_holdings, cash_pools, transactions, rules,
                 prices, call>>

NextSession ==
  \/ Enter
  \/ \E obj \in Objects : BlockAdd(obj)
  \/ \E how \in {"completed", "returned"} : BlockEnds(how)
  \/ \E e \in Raisable : BlockRaises(e)
  \/ \E ok \in BOOLEAN : Commit(ok)
  \/ Except
  \/ Finally

SpecSession == InitSession /\ [][NextSession]_vars

(***************************************************************************)
(* scrapers/base_scraper.py: RateLimiter                                   *)
(***************************************************************************)
\* RateLimiter(max_requests=2, time_window=1): the window is one second, that
\* is 10 tenths of a second.
max_requests == 2
time_window == 10

\* Bounds: the clock stops at MaxClock tenths of a second and wait_if_needed()
\* is called at most MaxCalls times.
MaxClock == 25
MaxCalls == 4

InitRateLimiter == pc = "RateLimiter" /\ Idle

\* Time passes between two calls of wait_if_needed().
Tick ==
  /\ pc = "RateLimiter"
  /\ clock < MaxClock
  /\ clock' = clock + 1
  /\ UNCHANGED <<pc, result, calcState, dbState, products, requests, admitted>>

\* The timestamps newer than the cutoff (line 22).
RecentRequests(now) ==
  SelectSeq(requests, LAMBDA t : t > now - time_window)

\* wait_time of line 25, for a full list of recent requests.
wait_time(now) == RecentRequests(now)[1] + time_window - now

\* wait_if_needed(): lines 19-31.  now is read once, on entry; time.sleep
\* returns after wait_time + 0.1 seconds, the list is emptied and the
\* timestamp read on entry is appended.
wait_if_needed ==
  /\ pc = "RateLimiter"
  /\ Len(admitted) < MaxCalls
  /\ LET now == clock
         sleeps == /\ Len(RecentRequests(now)) >= max_requests
                   /\ wait_time(now) > 0
         returns == IF sleeps THEN now + wait_time(now) + 1 ELSE now
     IN /\ returns <= MaxClock
        /\ requests' = IF sleeps THEN <<now>>
                       ELSE Append(RecentRequests(now), now)
        /\ clock' = returns
        /\ admitted' = Append(admitted, returns)
  /\ call' = [op |-> "wait_if_needed"]
  /\ UNCHANGED <<pc, result, calcState, portfolios, portfolio_holdings,
                 cash_pools, transactions, rules, prices, session, products>>

NextRateLimiter == Tick \/ wait_if_needed

SpecRateLimiter == InitRateLimiter /\ [][NextRateLimiter]_vars

(***************************************************************************)
(* C1: holdings are the per-product replay of the ledger                   *)
(***************************************************************************)
\* |quantity| of a row, a missing quantity counting as 0.
C1_Magnitude(t) == IF t.quantity = None THEN 0 ELSE Abs(t.quantity[1])

\* The running quantity of a product after one of its rows, as the claim
\* states it: SPLIT multiplies by split_ratio whenever a ratio is recorded.
C1_ClaimedQuantity(q, t) ==
  CASE t.transaction_type \in {"BUY", "BONUS", "RIGHTS", "TRANSFER_IN", "DEPOSIT"} ->
         q + C1_Magnitude(t)
    [] t.transaction_type \in {"SELL", "TRANSFER_OUT", "WITHDRAWAL"} ->
         q - C1_Magnitude(t)
    [] t.transaction_type = "SPLIT" ->
         IF t.split_ratio = None THEN q ELSE q * t.split_ratio[1]
    [] OTHER -> q

\* The same, with a SPLIT whose split_ratio is missing or zero left without
\* effect.
C1_AmendedQuantity(q, t) ==
  IF t.transaction_type = "SPLIT" /\ t.split_ratio = Some(0) THEN q
  ELSE C1_ClaimedQuantity(q, t)

\* BUY 100, SELL 40 (stored negated), SPLIT 2.0 of product 1.
C1_ExampleLedger ==
  << Txn("BUY", Some(1), 1, Some(200000), Some(50), Some(5000), None),
     Txn("SELL", Some(1), 2, Some(-80000), Some(60), Some(-2400), None),
     Txn("SPLIT", Some(1), 3, None, None, None, Some(2)) >>

C1_ExampleHolds == get_current_holdings(C1_ExampleLedger) = (1 :> 240000)

C1_ReturnsReplayed ==
  pc = "returned" => \A p \in DOMAIN result : result[p] = holdings[p]

\* C1 as stated: every replayed row changes only its own product's running
\* quantity, by the claimed rule (BUY/BONUS/RIGHTS/TRANSFER_IN/DEPOSIT add
\* |quantity|, SELL/TRANSFER_OUT/WITHDRAWAL subtract it, SPLIT multiplies by
\* split_ratio, every other type leaves it unchanged).
C1_Original ==
  [][replayed' = replayed + 1 =>
       \A p \in Products :
         holdings'[p] = IF txn'.product_id = Some(p)
                          THEN C1_ClaimedQuantity(holdings[p], txn')
                          ELSE holdings[p]]_vars

\* C1 (amended): get_current_holdings() returns for each product the quantity
\* obtained by starting at 0 and applying that product's rows in order: BUY,
\* BONUS, RIGHTS, TRANSFER_IN, DEPOSIT add |quantity|; SELL, TRANSFER_OUT,
\* WITHDRAWAL subtract it; SPLIT multiplies by split_ratio when the ratio is set
\* and non-zero and is ignored otherwise; other types change nothing.  BUY 100,
\* SELL 40, SPLIT 2.0 yields 120.
C1_HoldingsReplay ==
  /\ [](C1_ExampleHolds /\ C1_ReturnsReplayed)
  /\ [][replayed' = replayed + 1 =>
         \A p \in Products :
           holdings'[p] = IF txn'.product_id = Some(p)
                            THEN C1_AmendedQuantity(holdings[p], txn')
                            ELSE holdings[p]]_vars

\* The example ledger replayed to its end: 120 shares of product 1 returned.
C1_Witness ==
  /\ pc = "returned" /\ replayed = 3
  /\ txn = Txn("SPLIT", Some(1), 0, None, None, None, Some(2))
  /\ result = (1 :> 240000)

(***************************************************************************)
(* C10: the dust threshold                                                 *)
(***************************************************************************)
\* C10: the returned holdings contain a product iff its reconstructed
\* quantity is strictly above 0.001 units; 0.0005 (and zero or negative) is
\* omitted, 0.002 is included.
C10_DustThreshold ==
  pc = "returned" =>
    \A p \in Products :
      /\ (p \in DOMAIN result) <=> (holdings[p] > 2)
      /\ holdings[p] = 1 => p \notin DOMAIN result
      /\ holdings[p] <= 0 => p \notin DOMAIN result
      /\ holdings[p] = 4 => p \in DOMAIN result /\ result[p] = 4

\* 0.0005 units of product 1 are dropped while 0.002 units of product 2 stay.
C10_Witness ==
  /\ pc = "returned"
  /\ holdings[1] = 1 /\ holdings[2] = 4
  /\ DOMAIN result = {2}

(***************************************************************************)
(* C8: point-in-time holdings never shrink without a reducing row          *)
(***************************************************************************)
\* C8: for target dates D1 < D2 with no SELL, TRANSFER_OUT or SPLIT row dated
\* in (D1, D2], every product returned by get_holdings_at_date(D1) is returned
\* by get_holdings_at_date(D2) with a quantity at least as large.
C8_PointInTimeMonotone ==
  pc = "returned" /\ result_at # <<>> =>
    \A D1 \in Dates, D2 \in Dates :
      (D1 < D2 /\ \A d \in Dates : (D1 < d /\ d <= D2) => d \notin reducing_dates) =>
        \A p \in DOMAIN result_at[D1] :
          /\ p \in DOMAIN result_at[D2]
          /\ result_at[D2][p] >= result_at[D1][p]

\* A position open on day 1, grown by a row dated day 2 after a WITHDRAWAL on
\* day 2, without any reducing row in the ledger.
C8_Witness ==
  /\ pc = "returned" /\ result_at # <<>>
  /\ reducing_dates = {}
  /\ replayed = 3
  /\ txn.transaction_date = 2
  /\ 1 \in DOMAIN result_at[1]
  /\ result_at[2][1] > result_at[1][1]

(***************************************************************************)
(* C9: the cost basis                                                      *)
(***************************************************************************)
\* What one row contributes to the cost basis according to the claim.
C9_Contribution(t) ==
  LET mag == IF t.net_amount = None THEN 0 ELSE Abs(t.net_amount[1]) IN
  CASE t.transaction_type \in {"BUY", "DEPOSIT"} -> mag
    [] t.transaction_type \in {"SELL", "WITHDRAWAL"} -> 0 - mag
    [] OTHER -> 0

\* A ledger holding only a BUY of 10,000 and a SELL of 4,000 (stored negated).
C9_ExampleLedger ==
  << Txn("BUY", Some(1), 1, Some(100), Some(100), Some(10000), None),
     Txn("SELL", Some(1), 2, Some(-40), Some(100), Some(-4000), None) >>

\* C9: calculate_cost_basis() is the sum of |net_amount| over BUY and DEPOSIT
\* rows minus the sum of |net_amount| over SELL and WITHDRAWAL rows, every
\* other type contributing nothing; BUY 10,000 and SELL 4,000 give 6,000.
C9_CostBasis ==
  /\ [](calculate_cost_basis(C9_ExampleLedger) = 6000)
  /\ [](pc = "returned" => result = total_invested - total_proceeds)
  /\ [][replayed' = replayed + 1 =>
         total_invested' - total_proceeds' =
           (total_invested - total_proceeds) + C9_Contribution(txn')]_vars

\* The example ledger replayed to its end.
C9_Witness ==
  /\ pc = "returned" /\ replayed = 2
  /\ txn.transaction_type = "SELL" /\ txn.net_amount = Some(-4000)
  /\ total_invested = 10000
  /\ result = 6000

(***************************************************************************)
(* C2: FIFO realized gains                                                 *)
(***************************************************************************)
\* The open lots of one product, one entry (its price) per share, oldest
\* first.
RECURSIVE C2_Shares(_)
C2_Shares(lots) ==
  IF lots = <<>> THEN <<>>
  ELSE [i \in 1..Head(lots).quantity |-> Head(lots).price] \o C2_Shares(Tail(lots))

RECURSIVE C2_Sum(_)
C2_Sum(share_prices) ==
  IF share_prices = <<>> THEN 0 ELSE Head(share_prices) + C2_Sum(Tail(share_prices))

\* BUY 10@100, BUY 10@120, SELL 15@150 of product 1.
C2_ExampleLedger ==
  << Txn("BUY", Some(1), 1, Some(10), Some(100), None, None),
     Txn("BUY", Some(1), 2, Some(10), Some(120), None, None),
     Txn("SELL", Some(1), 3, Some(-15), Some(150), None, None) >>

C2_ExampleHolds ==
  LET r == ReplayRealized(<<[p \in Products |-> <<>>], 0>>, C2_ExampleLedger) IN
    /\ r[2] = 650
    /\ r[1][1] = <<[quantity |-> 5, price |-> 120]>>
    /\ r[1][2] = <<>>

\* What the claim says of the step that reads row t', for product p.
C2_StepOf(p) ==
  LET t == txn'
      mine == t.product_id = Some(p)
      qty == IF t.quantity = None THEN 0 ELSE Abs(t.quantity[1])
      price == IF t.price = None THEN 0 ELSE t.price[1]
      before == C2_Shares(product_lots[p])
      k == IF qty < Len(before) THEN qty ELSE Len(before)
  IN
    IF mine /\ t.transaction_type = "BUY" THEN
      \* a lot (quantity, price) is appended to the product's queue (a BUY of
      \* no shares adds no share to it)
      /\ C2_Shares(product_lots'[p]) = before \o [i \in 1..qty |-> price]
      /\ qty > 0 =>
           product_lots'[p] = Append(product_lots[p], [quantity |-> qty, price |-> price])
    ELSE IF mine /\ t.transaction_type = "SELL" THEN
      \* the oldest k shares leave the queue, each accruing sell price - lot price
      /\ C2_Shares(product_lots'[p]) = SubSeq(before, k + 1, Len(before))
      /\ realized_pl' = realized_pl + k * price - C2_Sum(SubSeq(before, 1, k))
      \* whole lots are removed from the front, at most one lot is reduced in place
      /\ \E j \in 0..Len(product_lots[p]) :
           /\ Len(product_lots'[p]) = Len(product_lots[p]) - j
           /\ \A i \in 1..Len(product_lots'[p]) :
                /\ product_lots'[p][i].price = product_lots[p][j + i].price
                /\ product_lots'[p][i].quantity > 0
                /\ i > 1 => product_lots'[p][i] = product_lots[p][j + i]
    ELSE
      \* rows of other products and other types leave the queue alone
      product_lots'[p] = product_lots[p]

\* C2: calculate_realized_gains() matches sells to buys FIFO per product: a BUY
\* appends a lot, a SELL consumes the oldest lots of its own product accruing
\* consumed quantity x (sell price - lot price), whole lots first and the last
\* one reduced in place; BUY 10@100, BUY 10@120, SELL 15@150 gives 650 with 5
\* units of the second lot left; lots of other products are never consumed.
C2_FifoRealizedGains ==
  /\ [](C2_ExampleHolds /\ (pc = "returned" => result = realized_pl))
  /\ [][replayed' = replayed + 1 =>
         /\ \A p \in Products : C2_StepOf(p)
         /\ (~(txn'.transaction_type = "SELL" /\ txn'.product_id # None
               /\ txn'.quantity # None)
             => realized_pl' = realized_pl)]_vars

\* The example ledger replayed to its end.
C2_Witness ==
  /\ pc = "returned" /\ replayed = 3
  /\ txn = Txn("SELL", Some(1), 0, Some(-15), Some(150), None, None)
  /\ product_lots[1] = <<[quantity |-> 5, price |-> 120]>>
  /\ product_lots[2] = <<>>
  /\ result = 650

(***************************************************************************)
(* C3: the ledger sign convention of add_transaction                       *)
(***************************************************************************)
\* C3: after a successful add_transaction the stored row has gross_amount =
\* quantity x price; for BUY, net = gross + fees + taxes with quantity and
\* net_amount stored positive; for every other type, net = gross - fees - taxes
\* with quantity and net_amount stored negated.
C3_SignConvention ==
  (call # <<>> /\ call.op = "add_transaction" /\ result = TRUE) =>
    LET row == transactions[Len(transactions)]
        gross == call.quantity * call.price
    IN /\ row.gross_amount = gross
       /\ IF row.transaction_type = "BUY"
            THEN /\ row.quantity = Some(call.quantity)
                 /\ row.net_amount = Some(gross + call.fees + call.taxes)
            ELSE /\ row.quantity = Some(0 - call.quantity)
                 /\ row.net_amount = Some(0 - (gross - call.fees - call.taxes))

(***************************************************************************)
(* C4: no catch-up, and the next date advances from the previous next date *)
(***************************************************************************)
\* The rows of the ledger that rule number id posted.
C4_PostedBy(ledger, id) == SelectSeq(ledger, LAMBDA t : t.rule = id)

\* C4: a MONTHLY rule with a non-zero amount that process_pending_events
\* executes with an as_of_date more than one month after its
\* next_execution_date posts exactly one transaction in that call, and its
\* next_execution_date becomes one month after its previous
\* next_execution_date (15 January, processed as of 1 March: 15 February).
C4_AdvancesOnePeriod ==
  [][\A id \in DOMAIN rules :
       ( /\ call'.op = "process_pending_events"
         /\ id \in result'.executed
         /\ rules[id].frequency = "MONTHLY"
         /\ _calculate_amount(rules[id]) # 0
         /\ AddMonths(rules[id].next_execution_date, 1) < call'.as_of_date )
       => /\ Len(C4_PostedBy(transactions', id))
               = Len(C4_PostedBy(transactions, id)) + 1
          /\ rules'[id].next_execution_date
               = AddMonths(rules[id].next_execution_date, 1)]_vars

(***************************************************************************)
(* C5: which rules process_pending_events executes                         *)
(***************************************************************************)
C5_Eligible(rule, as_of_date) ==
  /\ rule.is_active
  /\ rule.next_execution_date <= as_of_date
  /\ (rule.end_date = None \/ rule.end_date[1] >= as_of_date)
  /\ (rule.start_date = None \/ rule.start_date[1] <= as_of_date)
  /\ rule.last_execution_date # Some(as_of_date)

C5_PostedBy(ledger, id) == SelectSeq(ledger, LAMBDA t : t.rule = id)

C6_Close(table, product_id, date) ==
  LET at == {i \in DOMAIN table : /\ table[i].product_id = product_id
                                  /\ table[i].date = date}
  IN IF at = {} THEN None ELSE Some(table[CHOOSE i \in at : TRUE].close)

\* The close a batch carries last for a date, None when it has none.
C6_Latest(batch, date) ==
  LET at == {i \in DOMAIN batch : batch[i].date = date}
  IN IF at = {} THEN None
     ELSE Some(batch[CHOOSE i \in at : \A j \in at : j <= i].close)

C6_DistinctDates(batch) ==
  \A i, j \in DOMAIN batch : batch[i].date = batch[j].date => i = j

\* C6: the prices table never holds two rows of one (product_id, date); a
\* store_prices call that stores its batch leaves every row that was there in
\* its place with its key, gives every date of the batch the batch's latest
\* close for it, adds one row per date not yet stored and touches no other close;
\* a call that stores nothing leaves the table as it was; and a batch of distinct
\* dates, stored or not before, is stored whenever the database accepts the commit.
C6_OneRowPerProductDate ==
  /\ [](\A i, j \in DOMAIN prices :
          (prices[i].product_id = prices[j].product_id
             /\ prices[i].date = prices[j].date) => i = j)
  /\ [][call'.op = "store_prices" =>
        LET product_id == call'.product_id
            batch == call'.prices_df
        IN /\ result' > 0 =>
                /\ \A i \in DOMAIN prices :
                     /\ i \in DOMAIN prices'
                     /\ prices'[i].product_id = prices[i].product_id
                     /\ prices'[i].date = prices[i].date
                /\ \A p \in Products, d \in {1, 2} :
                     C6_Close(prices', p, d) =
                       IF p = product_id /\ C6_Latest(batch, d) # None
                         THEN C6_Latest(batch, d)
                         ELSE C6_Close(prices, p, d)
                /\ Len(prices') = Len(prices)
                     + Cardinality({d \in {batch[i].date : i \in DOMAIN batch} :
                                      C6_Close(prices, product_id, d) = None})
           /\ result' = 0 => prices' = prices
           /\ (batch # <<>> /\ C6_DistinctDates(batch) /\ call'.commit_ok)
                => result' = Len(batch)]_vars

\* A batch of two dates has just been stored for a product that had a price on
\* one of them only: that row now carries the new close.
C6_Witness ==
  /\ pc = "PriceFetcher"
  /\ call # <<>> /\ call.op = "store_prices" /\ result = 2
  /\ Len(prices) = 2
  /\ prices[1] = [product_id |-> 1, date |-> 1, close |-> 11]
  /\ prices[2] = [product_id |-> 1, date |-> 2, close |-> 10]
  /\ call.prices_df = <<[date |-> 2, close |-> 10], [date |-> 1, close |-> 11]>>

(***************************************************************************)
(* C7: commit, rollback and close of the scoped session                    *)
(***************************************************************************)
\* C7: commit is never called twice; when get_db_session has exited, the
\* session has been closed exactly once and holds nothing pending; if the
\* block completed or returned, commit was called once, and if it succeeded
\* the database holds what the block wrote and nothing was raised; if the
\* block or the commit raised, the database is as the session found it, the
\* caller receives that exception, an exception of class Exception was rolled
\* back by exactly one rollback call, and an exception in the block means
\* commit was never called.
C7_SessionDiscipline ==
  /\ session.commit_calls <= 1
  /\ pc = "exited" =>
       /\ session.close_calls = 1
       /\ session.new = {}
       /\ session.block \in {"completed", "returned"} => session.commit_calls = 1
       /\ (session.block \in {"completed", "returned"} /\ session.error = None) =>
            /\ session.database = session.before \cup session.written
            /\ session.raised = None
            /\ session.rollback_calls = 0
       /\ session.error # None =>
            /\ session.database = session.before
            /\ session.raised = session.error
            /\ IsException(session.error[1]) => session.rollback_calls = 1
       /\ session.block = "raised" => session.commit_calls = 0

\* A block that wrote an object completed, the commit failed, and the session
\* has exited.
C7_Witness ==
  /\ pc = "exited"
  /\ session.block = "completed"
  /\ session.written # {}
  /\ session.error = Some("OperationalError")
  /\ session.rollback_calls = 1

(***************************************************************************)
(* C11: add_transaction and the default cash pool                          *)
(***************************************************************************)
\* The change of the pool balance the claim gives a call; the types it does
\* not name leave the balance alone.
C11_CashEffect(c) ==
  CASE c.transaction_type \in {"BUY", "buy"} ->
         0 - (c.quantity * c.price + c.fees + c.taxes)
    [] c.transaction_type \in {"SELL", "sell"} ->
         Abs(c.quantity * c.price - c.fees - c.taxes)
    [] OTHER -> 0

\* C11: a successful add_transaction appends exactly one Transaction row and
\* changes the current_balance of the pool of the named portfolio, and of no
\* other pool, by -(gross + fees + taxes) for a BUY and by
\* +|gross - fees - taxes| for a SELL.
C11_CashPoolFollowsTrade ==
  [][(call'.op = "add_transaction" /\ result' = TRUE) =>
       LET owner == CHOOSE i \in DOMAIN portfolios :
                      portfolios[i].name = call'.portfolio_name
       IN /\ Len(transactions') = Len(transactions) + 1
          /\ SubSeq(transactions', 1, Len(transactions)) = transactions
          /\ Len(cash_pools') = Len(cash_pools)
          /\ \A i \in DOMAIN cash_pools :
               cash_pools'[i] =
                 IF cash_pools[i].portfolio = portfolios[owner].id
                   THEN [cash_pools[i] EXCEPT
                           !.current_balance = @ + C11_CashEffect(call')]
                   ELSE cash_pools[i]]_vars

\* A sale of 10 at R100 with fees 5 and taxes 2 has just credited R993 to the
\* pool of the first portfolio, which a purchase had debited by R1002.
C11_Witness ==
  /\ pc = "PortfolioManager"
  /\ call # <<>> /\ call.op = "add_transaction" /\ result = TRUE
  /\ call.transaction_type = "SELL" /\ call.fees = 5
  /\ Len(transactions) = 2
  /\ transactions[1].transaction_type = "BUY" /\ transactions[1].fees = 0
  /\ transactions[1].portfolio = transactions[2].portfolio
  /\ \E i \in DOMAIN cash_pools :
       /\ cash_pools[i].portfolio = transactions[2].portfolio
       /\ cash_pools[i].current_balance = 993 - 1002

(***************************************************************************)
(* C12: add_transaction on an unknown portfolio or product                 *)
(***************************************************************************)
\* The identifiers in the product catalogue.
C12_Catalogue == {"NPN", "SOL"}

\* C12: add_transaction naming a portfolio that is not stored, or a product
\* identifier that is not in the catalogue, returns False and leaves the
\* transactions, the cash pools and the portfolios as they were.
C12_UnresolvedWritesNothing ==
  [][( /\ call'.op = "add_transaction"
       /\ \/ \A i \in DOMAIN portfolios : portfolios[i].name # call'.portfolio_name
          \/ call'.product_identifier \notin C12_Catalogue )
     => /\ result' = FALSE
        /\ transactions' = transactions
        /\ cash_pools' = cash_pools
        /\ portfolios' = portfolios]_vars

\* A purchase of an unknown product for a stored portfolio that already has a
\* transaction has just been refused.
C12_Witness ==
  /\ pc = "PortfolioManager"
  /\ call # <<>> /\ call.op = "add_transaction" /\ result = FALSE
  /\ call.product_identifier = "XXX" /\ call.transaction_type = "BUY"
  /\ \E i \in DOMAIN portfolios : portfolios[i].name = call.portfolio_name
  /\ Len(transactions) = 1
  /\ \E i \in DOMAIN cash_pools : cash_pools[i].current_balance # 0

(***************************************************************************)
(* C13: portfolio names are unique, one default cash pool each             *)
(***************************************************************************)
\* C13: no two stored portfolios share a name; create_portfolio of a stored
\* name returns None and leaves portfolios, cash pools and transactions as they
\* were; create_portfolio of a new name appends one portfolio of that name and
\* one cash pool, owned by it and by no other pool, named "<name> - Cash", in
\* ZAR, of type CHECKING, with balance 0, and leaves every other row alone.
C13_UniquePortfolioNames ==
  /\ [](\A i, j \in DOMAIN portfolios :
          portfolios[i].name = portfolios[j].name => i = j)
  /\ [][call'.op = "create_portfolio" =>
          IF \E i \in DOMAIN portfolios : portfolios[i].name = call'.name
            THEN /\ result' = None
                 /\ portfolios' = portfolios
                 /\ cash_pools' = cash_pools
                 /\ transactions' = transactions
            ELSE /\ result' # None
                 /\ Len(portfolios') = Len(portfolios) + 1
                 /\ SubSeq(portfolios', 1, Len(portfolios)) = portfolios
                 /\ portfolios'[Len(portfolios')].name = call'.name
                 /\ Len(cash_pools') = Len(cash_pools) + 1
                 /\ SubSeq(cash_pools', 1, Len(cash_pools)) = cash_pools
                 /\ LET pool == cash_pools'[Len(cash_pools')] IN
                      /\ pool.portfolio = portfolios'[Len(portfolios')].id
                      /\ pool.name = <<call'.name, " - Cash">>
                      /\ pool.currency = "ZAR"
                      /\ pool.account_type = "CHECKING"
                      /\ pool.current_balance = 0
                 /\ \A i \in DOMAIN cash_pools :
                      cash_pools[i].portfolio # portfolios'[Len(portfolios')].id
                 /\ transactions' = transactions]_vars

\* With two portfolios stored, create_portfolio of the first one's name has
\* just been refused.
C13_Witness ==
  /\ pc = "PortfolioManager"
  /\ call # <<>> /\ call.op = "create_portfolio" /\ result = None
  /\ Len(portfolios) = 2 /\ Len(cash_pools) = 2
  /\ portfolios[1].name = call.name

(***************************************************************************)
(* C14: deleting a portfolio                                               *)
(***************************************************************************)

\* The rows of a table that the portfolio with this id does not own.
C14_RowsOfOthers(table, portfolio_id) ==
  SelectSeq(table, LAMBDA row : row.portfolio # portfolio_id)

\* C14: delete_portfolio(name) of a stored portfolio returns True and leaves
\* the portfolio and every Transaction, CashPool, RecurringTransactionRule and
\* PortfolioHolding row it owns gone and the rows of the other portfolios
\* unchanged; for a name that is not stored it returns False and changes
\* nothing.
C14_DeleteCascades ==
  [][call'.op = "delete_portfolio" =>
       IF \A i \in DOMAIN portfolios : portfolios[i].name # call'.portfolio_name
         THEN /\ result' = FALSE
              /\ portfolios' = portfolios
              /\ portfolio_holdings' = portfolio_holdings
              /\ cash_pools' = cash_pools
              /\ rules' = rules
              /\ transactions' = transactions
         ELSE LET owner == CHOOSE i \in DOMAIN portfolios :
                             portfolios[i].name = call'.portfolio_name
                  id == portfolios[owner].id
              IN /\ result' = TRUE
                 /\ portfolios' = SelectSeq(portfolios, LAMBDA p : p.id # id)
                 /\ portfolio_holdings' = C14_RowsOfOthers(portfolio_holdings, id)
                 /\ cash_pools' = C14_RowsOfOthers(cash_pools, id)
                 /\ rules' = C14_RowsOfOthers(rules, id)
                 /\ transactions' = C14_RowsOfOthers(transactions, id)]_vars

\* The same with the transactions of the other portfolios left aside.
C14_OwnRowsGone ==
  [][call'.op = "delete_portfolio" =>
       IF \A i \in DOMAIN portfolios : portfolios[i].name # call'.portfolio_name
         THEN result' = FALSE
         ELSE LET owner == CHOOSE i \in DOMAIN portfolios :
                             portfolios[i].name = call'.portfolio_name
                  id == portfolios[owner].id
              IN /\ result' = TRUE
                 /\ portfolios' = SelectSeq(portfolios, LAMBDA p : p.id # id)
                 /\ portfolio_holdings' = C14_RowsOfOthers(portfolio_holdings, id)
                 /\ cash_pools' = C14_RowsOfOthers(cash_pools, id)
                 /\ rules' = C14_RowsOfOthers(rules, id)
                 /\ Len(transactions') = Len(C14_RowsOfOthers(transactions, id))]_vars

\* A portfolio was deleted while another portfolio kept a transaction, a rule,
\* a cash pool or a legacy holding.
C14_Witness ==
  /\ call # <<>>
  /\ call.op = "delete_portfolio"
  /\ result = TRUE
  /\ transactions # <<>>
  /\ rules # <<>>
  /\ cash_pools # <<>>

(***************************************************************************)
(* C15: a rule whose calculated amount is zero                             *)
(***************************************************************************)

\* C15: when process_pending_events hands a due rule whose calculated amount
\* is exactly zero to _execute_rule, the call posts no transaction for it and
\* leaves the rule, with its next_execution_date and last_execution_date, as
\* it was, so that the rule is due again for the same as_of_date; a call in
\* which every executed rule has a zero amount changes no cash pool.
C15_ZeroAmountSkipped ==
  [][call'.op = "process_pending_events" =>
       /\ \A id \in result'.executed :
            _calculate_amount(rules[id]) = 0 =>
              /\ C4_PostedBy(transactions', id) = C4_PostedBy(transactions, id)
              /\ rules'[id] = rules[id]
              /\ C5_Eligible(rules'[id], call'.as_of_date)
       /\ (\A id \in result'.executed : _calculate_amount(rules[id]) = 0) =>
            /\ cash_pools' = cash_pools
            /\ transactions' = transactions]_vars

\* A call has just handed a zero-amount rule and a rule that posted to
\* _execute_rule: the zero-amount rule has posted nothing and is still due.
C15_Witness ==
  /\ pc = "RecurringTransactionEngine"
  /\ call # <<>> /\ call.op = "process_pending_events"
  /\ \E id \in result.executed, other \in result.executed :
       /\ _calculate_amount(rules[id]) = 0
       /\ rules[id].last_execution_date = None
       /\ rules[id].next_execution_date = 15
       /\ C4_PostedBy(transactions, id) = <<>>
       /\ C4_PostedBy(transactions, other) # <<>>

(***************************************************************************)
(* C16: the amounts of the rows the engine posts                           *)
(***************************************************************************)

\* gross x (1 - tax_rate), tax_rate in percent; gross for no tax_rate.
C16_AfterTax(gross, tax_rate) ==
  IF tax_rate = None THEN gross ELSE (gross * (100 - tax_rate[1])) \div 100

\* The amounts of an engine-posted row follow its rule: an income row
\* (DIVIDEND, COUPON, INTEREST) has net = gross x (1 - tax_rate) and
\* taxes = gross - net; any other row has net = -|gross| and taxes = 0.
C16_Amounts(t) ==
  IF t.transaction_type \in {"DIVIDEND", "COUPON", "INTEREST"}
    THEN /\ t.net_amount = Some(C16_AfterTax(t.gross_amount, rules[t.rule].tax_rate))
         /\ t.taxes = t.gross_amount - t.net_amount[1]
    ELSE /\ t.net_amount = Some(0 - Abs(t.gross_amount))
         /\ t.taxes = 0

RECURSIVE C17_NetInto(_, _)
C17_NetInto(rows, pool_id) ==
  IF rows = <<>> THEN 0
  ELSE LET rule == rules[Head(rows).rule]
       IN (IF rule.affects_cash_pool /\ rule.cash_pool = Some(pool_id)
             THEN Head(rows).net_amount[1] ELSE 0)
          + C17_NetInto(Tail(rows), pool_id)

C18_BatchSurvivesException ==
  [][( /\ call'.op = "process_pending_events"
       /\ \E id \in DOMAIN rules :
            /\ C5_Eligible(rules[id], call'.as_of_date)
            /\ _execute_rule_raises(rules[id]) )
     => /\ result'.executed_count \in Nat
        /\ \A other \in DOMAIN rules :
             ( /\ C5_Eligible(rules[other], call'.as_of_date)
               /\ _calculate_amount(rules[other]) # 0 )
             => /\ other \in result'.executed
                /\ Len(C4_PostedBy(transactions', other))
                     = Len(C4_PostedBy(transactions, other)) + 1
                /\ rules'[other].last_execution_date = Some(call'.as_of_date)
                /\ rules'[other].next_execution_date =
                     _calculate_next_date(call'.as_of_date,
                                          rules[other].frequency,
                                          rules[other].custom_frequency_days)]_vars

\* Rule 1 raised in a batch of two, and rule 2, a fee, was executed after it:
\* its row is in the ledger, its dates are advanced, and the call returned 1.
C18_Witness ==
  /\ pc = "RecurringTransactionEngine"
  /\ call # <<>> /\ call.op = "process_pending_events"
  /\ result.executed = {1, 2}
  /\ result.executed_count = 1
  /\ rules[1].transaction_type = "NULL"
  /\ rules[2].transaction_type = "FEE"
  /\ C4_PostedBy(transactions, 2) # <<>>
  /\ rules[2].last_execution_date = Some(call.as_of_date)

(***************************************************************************)
(* C19: store_prices stores a whole batch or nothing                       *)
(***************************************************************************)

\* C19: a store_prices call either returns 0 and leaves the prices table as
\* it was, or returns the number of rows of the batch with every date of the
\* batch stored at the batch's latest close for it; it returns 0 whenever a
\* row raises while the batch is processed or the database refuses the
\* commit, and the number of rows whenever nothing raises, the commit is
\* accepted and the dates of the batch are distinct.
C19_AllOrNothing ==
  [][call'.op = "store_prices" =>
       LET batch == call'.prices_df
           failed == call'.raises_at # 0 \/ ~call'.commit_ok
       IN /\ \/ result' = 0 /\ prices' = prices
             \/ /\ batch # <<>>
                /\ result' = Len(batch)
                /\ \A i \in DOMAIN batch :
                     C6_Close(prices', call'.product_id, batch[i].date)
                       = C6_Latest(batch, batch[i].date)
          /\ failed => result' = 0 /\ prices' = prices
          /\ (batch # <<>> /\ ~failed /\ C6_DistinctDates(batch))
               => result' = Len(batch)]_vars

\* The second row of a batch raised after the first, a close for a date
\* already stored at another close, had been put in the session: the call
\* returned 0 and the stored close is the old one.
C19_Witness ==
  /\ pc = "PriceFetcher"
  /\ call # <<>> /\ call.op = "store_prices"
  /\ call.raises_at = 2
  /\ call.prices_df[1] = [date |-> 1, close |-> 11]
  /\ result = 0
  /\ C6_Close(prices, 1, 1) = Some(10)

(***************************************************************************)
(* C20: the price at a date                                                *)
(***************************************************************************)

\* C20: get_price_at_date(product_id, D) returns the close of the product's
\* stored row with the greatest date <= D, the row dated D when there is one,
\* and None when the product has no row dated on or before D; rows dated after
\* D and rows of other products play no part, and the table is left as it was.
C20_ClosestPriorClose ==
  [][call'.op = "get_price_at_date" =>
       LET upto == {i \in DOMAIN prices :
                      /\ prices[i].product_id = call'.product_id
                      /\ prices[i].date <= call'.target_date}
       IN /\ prices' = prices
          /\ result' =
               IF upto = {} THEN None
               ELSE Some(prices[CHOOSE i \in upto :
                                  \A j \in upto : prices[j].date <= prices[i].date].close)
          /\ \A i \in upto :
               prices[i].date = call'.target_date => result' = Some(prices[i].close)]_vars

\* Product 1 has a price of 11 on day 1 and one of 10 on day 2; asked for day 1
\* the call returned 11, the later row and the rows of product 2 set aside.
C20_Witness ==
  /\ pc = "PriceFetcher"
  /\ call # <<>> /\ call.op = "get_price_at_date"
  /\ call.product_id = 1 /\ call.target_date = 1
  /\ C6_Close(prices, 1, 1) = Some(11)
  /\ C6_Close(prices, 1, 2) = Some(10)
  /\ C6_Close(prices, 2, 1) = Some(10)
  /\ result = Some(11)

\* Product 1 has no price on day 3 and none on day 2: asked for day 3 the call
\* returned the close of day 1.
C20_WitnessPrior ==
  /\ pc = "PriceFetcher"
  /\ call # <<>> /\ call.op = "get_price_at_date"
  /\ call.product_id = 1 /\ call.target_date = 3
  /\ C6_Close(prices, 1, 1) = Some(11)
  /\ C6_Close(prices, 1, 2) = None
  /\ C6_Close(prices, 2, 2) = Some(10)
  /\ result = Some(11)

(***************************************************************************)
(* C21: the migration of the legacy holdings                               *)
(***************************************************************************)

\* The BUY rows of a ledger that carry the portfolio, product, date, quantity
\* and price of a holding and quantity x entry_price as gross_amount.
C21_Migrated(ledger, holding) ==
  SelectSeq(ledger, LAMBDA t : /\ t.transaction_type = "BUY"
                               /\ t.portfolio = holding.portfolio
                               /\ t.product_id = Some(holding.product_id)
                               /\ t.transaction_date = holding.entry_date
                               /\ t.quantity = Some(holding.quantity)
                               /\ t.price = Some(holding.entry_price)
                               /\ t.gross_amount
                                    = holding.quantity * holding.entry_price)

\* C21 as stated: after migrate_holdings_to_transactions every legacy holding
\* has exactly one such BUY row, and a run that finds every holding migrated
\* adds no row.
C21_Original ==
  [][call'.op = "migrate_holdings_to_transactions" =>
       /\ \A i \in DOMAIN portfolio_holdings :
            Len(C21_Migrated(transactions', portfolio_holdings[i])) = 1
       /\ (\A i \in DOMAIN portfolio_holdings :
             C21_Migrated(transactions, portfolio_holdings[i]) # <<>>)
            => transactions' = transactions]_vars

\* C21, amended: after migrate_holdings_to_transactions the ledger holds, for
\* every legacy holding, as many such BUY rows as the legacy table has holdings
\* with that portfolio, product, date, quantity and price (one when the holding
\* is the only one of its kind), and a run that finds every holding migrated
\* adds no row.
C21_MigrationPreserves ==
  [][call'.op = "migrate_holdings_to_transactions" =>
       /\ \A i \in DOMAIN portfolio_holdings :
            Len(C21_Migrated(transactions', portfolio_holdings[i]))
              = Cardinality({j \in DOMAIN portfolio_holdings :
                               portfolio_holdings[j] = portfolio_holdings[i]})
       /\ Len(transactions') >= Len(transactions)
       /\ SubSeq(transactions', 1, Len(transactions)) = transactions
       /\ (\A i \in DOMAIN portfolio_holdings :
             C21_Migrated(transactions, portfolio_holdings[i]) # <<>>)
            => transactions' = transactions]_vars

\* The migration has run over two holdings of 10 and of 20 units: the ledger
\* holds one BUY of 1000 and one of 2000.
C21_Witness ==
  /\ pc = "migrate_to_transaction_ledger"
  /\ call # <<>> /\ call.op = "migrate_holdings_to_transactions"
  /\ Len(portfolio_holdings) = 2
  /\ portfolio_holdings[1].quantity = 10
  /\ portfolio_holdings[2].quantity = 20
  /\ Len(transactions) = 2
  /\ transactions[1].gross_amount = 1000
  /\ transactions[2].gross_amount = 2000

(***************************************************************************)
(* C22: the default cash pools of the migration                            *)
(***************************************************************************)

\* C22: create_default_cash_pools adds one cash pool to every active portfolio
\* that has none and no pool to any other portfolio, whatever the base
\* currency, so that afterwards every active portfolio has a cash pool and a
\* second run adds nothing.
C22_PoolOnlyIfMissing ==
  [][call'.op = "create_default_cash_pools" =>
       \A i \in DOMAIN portfolios :
         LET owned(pools) == SelectSeq(pools, LAMBDA p : p.portfolio = portfolios[i].id)
         IN Len(owned(cash_pools')) =
              IF portfolios[i].is_active /\ owned(cash_pools) = <<>>
                THEN 1 ELSE Len(owned(cash_pools))]_vars

(***************************************************************************)
(* C23: the rate limiter admits at most max_requests calls per window      *)
(***************************************************************************)
\* The calls of wait_if_needed() that returned within the time_window tenths
\* of a second that start when call i returned.
C23_AdmittedFrom(i) ==
  {j \in DOMAIN admitted :
     admitted[j] >= admitted[i] /\ admitted[j] < admitted[i] + time_window}

\* C23: whatever the times at which wait_if_needed() is called, no interval of
\* time_window seconds holds the return of more than max_requests calls.
C23_AtMostNPerWindow ==
  \A i \in DOMAIN admitted : Cardinality(C23_AdmittedFrom(i)) <= max_requests

(***************************************************************************)
(* C24: on or after the last transaction date, the holdings at the date    *)
(* are the current holdings                                                *)
(***************************************************************************)
\* C24: for the ledger of every portfolio and every target date D on or after
\* its latest transaction date, get_holdings_at_date(D) returns the dict that
\* get_current_holdings() returns.
C24_AtDateIsCurrent ==
  \A i \in DOMAIN portfolios :
    LET ledger == _load_transactions(portfolios[i].id)
    IN \A D \in Dates :
         (\A k \in DOMAIN ledger : ledger[k].transaction_date <= D)
           => get_holdings_at_date(ledger, D) = get_current_holdings(ledger)

(***************************************************************************)
(* C25: a second call for the same date leaves the executed rules alone    *)
(***************************************************************************)
\* C25: when process_pending_events(D) is called again right after a call
\* process_pending_events(D), every rule the first call executed gets no
\* further transaction and keeps its execution dates, and when the second call
\* hands no other rule to _execute_rule the cash pools keep their balances.
C25_OncePerDate ==
  [][(/\ call # <<>>
      /\ call.op = "process_pending_events"
      /\ call'.op = "process_pending_events"
      /\ call'.as_of_date = call.as_of_date) =>
       /\ \A id \in result.executed :
            /\ C4_PostedBy(transactions', id) = C4_PostedBy(transactions, id)
            /\ rules'[id].last_execution_date = rules[id].last_execution_date
            /\ rules'[id].next_execution_date = rules[id].next_execution_date
       /\ result'.executed \subseteq result.executed => cash_pools' = cash_pools]_vars

\* A call for 1 March that found nothing to execute, a rule having posted its
\* row for 1 March in an earlier call for that date.
C25_Witness ==
  /\ pc = "RecurringTransactionEngine"
  /\ call # <<>> /\ call.op = "process_pending_events"
  /\ call.as_of_date = 60
  /\ result.executed = {}
  /\ \E id \in DOMAIN rules :
       /\ rules[id].is_active
       /\ rules[id].last_execution_date = Some(60)
       /\ C4_PostedBy(transactions, id) # <<>>
       /\ C4_PostedBy(transactions, id)[1].transaction_date = 60
       /\ cash_pools # <<>>
       /\ cash_pools[1].current_balance # 0

(***************************************************************************)
(* C26: the value process_pending_events returns                           *)
(***************************************************************************)
\* The rules for which the call posted a transaction and advanced the
\* schedule without raising.
C26_Executed ==
  {id \in DOMAIN rules :
     /\ Len(C4_PostedBy(transactions', id)) > Len(C4_PostedBy(transactions, id))
     /\ rules'[id].next_execution_date # rules[id].next_execution_date
     /\ ~_execute_rule_raises(rules[id])}

\* C26: process_pending_events returns the number of rules for which a
\* transaction was posted and the schedule advanced; a rule skipped for a zero
\* amount and a rule whose execution raised are not counted.
C26_ReturnsExecutedCount ==
  [][call'.op = "process_pending_events" =>
       result'.executed_count = Cardinality(C26_Executed)]_vars

(***************************************************************************)
(* C27: update_product_prices reports success only for stored prices       *)
(***************************************************************************)
\* Every day of the fetched frame has a row of the product in the table.
C27_Stored(table, product_id, fetched) ==
  \A k \in DOMAIN fetched :
    \E i \in DOMAIN table : /\ table[i].product_id = product_id
                            /\ table[i].date = fetched[k].date

\* C27: update_product_prices returns failure and leaves last_updated and the
\* prices as they were when the product is missing, has no API data or no
\* history was fetched; it returns success, and it stamps last_updated, only
\* when the fetched history is in the price table after the call.
C27_SuccessMeansStored ==
  [][call'.op = "update_product_prices" =>
       LET product_id == call'.product_id
           fetched == call'.prices_df
           found == ProductWithId(product_id)
       IN /\ (found = <<>> \/ ~Head(found).has_api_data \/ fetched = <<>>)
               => (result' = FALSE /\ products' = products /\ prices' = prices)
          /\ (result' = TRUE \/ products' # products)
               => C27_Stored(prices', product_id, fetched)]_vars

(***************************************************************************)
(* C28: the reinvestment BUY is a placeholder                              *)
(***************************************************************************)
\* The rows a step appends to the ledger for rule number id.
C28_Posted(id) ==
  C4_PostedBy(SubSeq(transactions', Len(transactions) + 1, Len(transactions')), id)

\* The auto-generated BUY rows among them.
C28_Drips(id) ==
  SelectSeq(C28_Posted(id),
            LAMBDA t : t.transaction_type = "BUY" /\ t.is_auto_generated)

\* C28: a rule flagged is_reinvested with a reinvestment product that executes
\* with a positive net amount gets exactly one more auto-generated BUY, for the
\* reinvestment product, with quantity 0 and price 0; any other rule gets no
\* such BUY; and get_current_holdings() of every portfolio is what it was
\* before the call.
C28_PlaceholderBuy ==
  [][call'.op = "process_pending_events" =>
       /\ \A id \in DOMAIN rules :
            IF /\ C28_Posted(id) # <<>>
               /\ rules[id].is_reinvested
               /\ Truthy(rules[id].reinvestment_product_id)
               /\ C28_Posted(id)[1].net_amount[1] > 0
              THEN /\ Len(C28_Drips(id)) = 1
                   /\ C28_Drips(id)[1].product_id = rules[id].reinvestment_product_id
                   /\ C28_Drips(id)[1].quantity = Some(0)
                   /\ C28_Drips(id)[1].price = Some(0)
              ELSE C28_Drips(id) = <<>>
       /\ \A i \in DOMAIN portfolios :
            get_current_holdings(_load_transactions(portfolios[i].id))'
              = get_current_holdings(_load_transactions(portfolios[i].id))]_vars

\* A dividend of R100 reinvested in product 2 has been executed for a
\* portfolio that holds 10 units of product 1: its row is followed by the BUY.
C28_Witness ==
  /\ pc = "Application"
  /\ call # <<>> /\ call.op = "process_pending_events"
  /\ result.executed = {1}
  /\ Len(transactions) = 3
  /\ transactions[1].transaction_type = "BUY" /\ transactions[1].rule = 0
  /\ transactions[2].transaction_type = "DIVIDEND" /\ transactions[2].rule = 1
  /\ transactions[2].net_amount = Some(100)
  /\ transactions[3].transaction_type = "BUY" /\ transactions[3].rule = 1
  /\ transactions[3].product_id = Some(2)
  /\ transactions[3].quantity = Some(0)
  /\ get_current_holdings(_load_transactions(1)) = (1 :> 10)

(***************************************************************************)
(* C29: what a rule that raises leaves behind                              *)
(***************************************************************************)
\* C29: for every rule process_pending_events hands to _execute_rule, either
\* its transaction is recorded and its last_execution_date and
\* next_execution_date have moved, or it has no new row and its rule row is
\* as it was.
C29_RuleAllOrNothing ==
  [][call'.op = "process_pending_events" =>
       \A id \in result'.executed :
         \/ /\ C28_Posted(id) # <<>>
            /\ rules'[id].last_execution_date = Some(call'.as_of_date)
            /\ rules'[id].next_execution_date # rules[id].next_execution_date
         \/ /\ C28_Posted(id) = <<>>
            /\ rules'[id] = rules[id]]_vars

(***************************************************************************)
(* C30: the default cash pool mirrors the cost basis                       *)
(***************************************************************************)
\* C30: for every portfolio made by create_portfolio whose ledger holds BUY
\* and SELL rows only, the balance of its default cash pool is the negation of
\* calculate_cost_basis() of its ledger.
C30_BalanceIsNegatedCostBasis ==
  \A i \in DOMAIN portfolios :
    LET ledger == _load_transactions(portfolios[i].id)
    IN (\A k \in DOMAIN ledger : ledger[k].transaction_type \in {"BUY", "SELL"})
         => /\ PoolsOf(portfolios[i].id) # <<>>
            /\ Head(PoolsOf(portfolios[i].id)).current_balance
                 = 0 - calculate_cost_basis(ledger)

\* Portfolio 1 bought 10 units at R100 and sold 10 units at R100 with R5 of
\* fees, R2 of taxes each time: R1002 out, R993 in.
C30_Witness ==
  /\ pc = "PortfolioManager"
  /\ portfolios # <<>>
  /\ Len(transactions) = 2
  /\ transactions[1].transaction_type = "BUY" /\ transactions[1].portfolio = 1
  /\ transactions[1].fees = 0
  /\ transactions[2].transaction_type = "SELL" /\ transactions[2].portfolio = 1
  /\ transactions[2].fees = 5
  /\ calculate_cost_basis(_load_transactions(1)) = 9
  /\ Head(PoolsOf(1)).current_balance = -9

====
